---------------------------- MODULE Spec2Model ----------------------------
(***************************************************************************)
(* ctx-monitor: the analytical core over execution traces.                 *)
(*                                                                         *)
(* An event is a record of the fields the passes read:                     *)
(*   event_type, tool_name, session_id, timestamp, status.                 *)
(* A timestamp is an ISO-8601 string in the source; here it is the pair    *)
(* <<second, fraction>>, ordered lexicographically as the strings are, and *)
(* its first 19 characters ("YYYY-MM-DDTHH:MM:SS") are the second alone.   *)
(* Ratios of counts are compared exactly, by cross-multiplication: for the *)
(* counts reached here the float comparison of the source agrees with it.  *)
(***************************************************************************)
EXTENDS Integers, Sequences, FiniteSets, TLC

VARIABLES
    events,     \* the loaded events, in file order (load_traces / self.events)
    threshold,  \* IntermittencyAuditor.threshold, a ratio <<num, den>>
    issues,     \* IntermittencyAuditor.issues
    metrics,    \* the last result of MetricsCollector.get_tool_metrics
    health,     \* the last result of MetricsCollector.calculate_health_score
    pc,         \* "loading" while events arrive, then the name of the pass that ran
    open,       \* tools whose call is in flight at the event source
    lost,       \* whether the event source left out a PostToolUse
    events2,    \* the events of the second trace of a comparison, in file order
    health2,    \* calculate_health_score of the second trace
    diff,       \* the last result of compare_traces
    file,       \* a trace file: the pieces of text written to it so far
    pos,        \* how many pieces of the file the loader has read
    partial,    \* the loader's text after the last newline it has read
    raised,     \* the exception that ended the load, "none" if none did
    loader,     \* the load function that reads the file
    sessions_file,  \* what sessions.json holds
    trace_files,    \* session -> st_mtime of session_<id>.jsonl, 0: no file
    trace_file,     \* the session whose file _load_events reads, 0: none
    todo,           \* audit_unpaired_events: the sessions not yet swept
    sweeping,       \* the sorted events of the session being swept
    turn,           \* how many of them the loop has taken
    pending_pre,    \* pending_pre, a sequence of [key, event] in dict order
    pending_was,    \* pending_pre before the last turn of the loop
    oscillation_threshold,  \* the configured change-rate threshold
    results,        \* what the calls of run_audit returned, in order
    ran,            \* the passes that have run on the auditor, in order
    strict,         \* ComplianceAuditor.strict
    last_sizes,     \* TraceWatcher._last_sizes of the trace file
    current_size,   \* _check_files: the size stat() reported
    delivered,      \* the events passed to the watcher's callback, in order
    last_event_id,  \* the event_id the client passes to get_events_since
    received        \* the events the client has been given, in order

compared == <<events2, health2, diff>>
reading == <<file, pos, partial, raised, loader>>
indexed == <<sessions_file, trace_files, trace_file>>

swept == <<todo, sweeping, turn, pending_pre, pending_was>>
audited == <<oscillation_threshold, results, ran, strict>>
watched == <<last_sizes, current_size, delivered>>
polled == <<last_event_id, received>>
later == <<swept, audited, watched, polled>>

\* what the passes over one trace leave alone
aside == <<compared, reading, indexed, later>>

vars == <<events, threshold, issues, metrics, health, pc, open, lost, aside>>

-----------------------------------------------------------------------------
(* Bounds of the model. *)

MaxEvents == 5      \* events in a pairing trace
MaxSec == 1         \* the last second of a trace's timestamps
MaxMixed == 3       \* events in a trace over every tool and status
MaxCalls == 10      \* events in a trace of one tool's successes and errors
MaxShuffled == 4    \* events in a trace whose file order is not its time order
MaxSeq == 9         \* events in a trace of one tool's outcomes in one session
MaxLifecycle == 4   \* events in a trace of session starts and ends
MaxScored == 4      \* events in a trace whose health is scored
MaxLong == 15       \* events in a long trace whose health is scored
MaxDiffEvents == 5  \* events in the two traces of a diff, together
MaxLines == 3       \* lines of a trace file that is loaded whole
MaxAppended == 3    \* records a live session appends to a trace file
MaxTraces == 2      \* session_*.jsonl files, and their modification times
MaxIndexed == 2     \* entries of the "sessions" list of sessions.json
MaxSwept == 3       \* events in a trace swept a turn at a time
MaxAudited == 5      \* events in a trace that run_audit audits
MaxOrdered == 4      \* events in a trace whose passes run in any order
MaxOptional == 2     \* events in a trace with absent and null fields
MaxConfigured == 6   \* events in a trace audited under configured thresholds
MaxComplied == 4     \* events in a trace audited for compliance
MaxRuns == 2         \* calls of run_audit on one auditor
MaxPolled == 4       \* events in a trace a client polls
MaxReceived == 6     \* events a polling client is given
MaxCompared == 4    \* events in each of two traces whose scores are compared

Fractions == {0, 1}    \* the fractions of a second a timestamp can carry

Tools == {"Write", "Bash"}

Absent == "<absent>"   \* a key the record does not carry
Null == "<null>"       \* a key the record carries with the value null

\* An absent timestamp: read with the default "" it sorts before every
\* timestamp and its first 19 characters are itself.  A null timestamp is
\* None, which has no order and no slice.
AbsentStamp == <<-1, 0>>
NullStamp == <<-2, 0>>

-----------------------------------------------------------------------------
(* Reading a record. *)

\* event.get(field, default)
Get(event, field, default) ==
    IF event[field] = Absent THEN default ELSE event[field]

\* timestamp[:19]
Trunc19(timestamp) == timestamp[1]

\* a <= b on timestamp strings
TsLeq(a, b) == a[1] < b[1] \/ (a[1] = b[1] /\ a[2] <= b[2])

Event(type, tool, session, ts, status) ==
    [event_type |-> type, tool_name |-> tool, session_id |-> session,
     timestamp |-> ts, status |-> status]

-----------------------------------------------------------------------------
(* sorted(session_events, key=timestamp): stable. *)

\* the position after the last element whose timestamp is <= e's
InsertAfter(sorted, e) ==
    LET keep == {i \in 1..Len(sorted) : TsLeq(sorted[i].timestamp, e.timestamp)}
        n == IF keep = {} THEN 0 ELSE CHOOSE i \in keep : \A j \in keep : j <= i
    IN  SubSeq(sorted, 1, n) \o <<e>> \o SubSeq(sorted, n + 1, Len(sorted))

RECURSIVE SortedByTimestamp(_)
SortedByTimestamp(s) ==
    IF s = <<>> THEN <<>>
    ELSE InsertAfter(SortedByTimestamp(SubSeq(s, 1, Len(s) - 1)), s[Len(s)])

-----------------------------------------------------------------------------
(* audit_unpaired_events *)

\* sessions: the session ids in order of first appearance
RECURSIVE SessionIds(_)
SessionIds(s) ==
    IF s = <<>> THEN <<>>
    ELSE LET rest == SessionIds(SubSeq(s, 1, Len(s) - 1))
             sid == Get(s[Len(s)], "session_id", "unknown")
         IN  IF \E i \in 1..Len(rest) : rest[i] = sid THEN rest
             ELSE Append(rest, sid)

SessionEvents(s, sid) ==
    SelectSeq(s, LAMBDA e : Get(e, "session_id", "unknown") = sid)

\* pending_pre is an insertion-ordered dict: a sequence of [key, event]
HasKey(pending, key) == \E i \in 1..Len(pending) : pending[i].key = key

\* pending_pre[key] = event: a present key keeps its place and takes the new event
PendingPut(pending, key, event) ==
    IF HasKey(pending, key)
    THEN [i \in 1..Len(pending) |->
            IF pending[i].key = key THEN [key |-> key, event |-> event]
            ELSE pending[i]]
    ELSE Append(pending, [key |-> key, event |-> event])

\* del pending_pre[key]
PendingDel(pending, key) == SelectSeq(pending, LAMBDA p : p.key # key)

\* PendingDelAnyOf without the fallback loop: only an exact key ever matches
PendingDelAnyOf_NoFallback(pending, tool) == pending

\* PendingDelAnyOf without the test of the tool: the first pending key goes
PendingDelAnyOf_AnyTool(pending, tool) ==
    IF pending = <<>> THEN pending ELSE Tail(pending)

\* the first pending key of the tool, in dict order, is dropped; none: no change
PendingDelAnyOf(pending, tool) ==
    LET hits == {i \in 1..Len(pending) : pending[i].key[1] = tool}
    IN  IF hits = {} THEN pending
        ELSE LET first == CHOOSE i \in hits : \A j \in hits : i <= j
             IN  SubSeq(pending, 1, first - 1)
                 \o SubSeq(pending, first + 1, Len(pending))

\* SweepStep without the test of the exact key: any pending entry of the tool
SweepStep_AnyOfTool(pending, event) ==
    LET tool_name == Get(event, "tool_name", "unknown")
        key == <<tool_name, Trunc19(event.timestamp)>>
    IN  IF event.event_type = "PreToolUse" THEN PendingPut(pending, key, event)
        ELSE IF event.event_type = "PostToolUse"
        THEN PendingDelAnyOf(pending, tool_name)
        ELSE pending

\* one turn of the loop over the sorted events of a session
SweepStep(pending, event) ==
    LET tool_name == Get(event, "tool_name", "unknown")
        key == <<tool_name, Trunc19(event.timestamp)>>
    IN  IF event.event_type = "PreToolUse" THEN PendingPut(pending, key, event)
        ELSE IF event.event_type = "PostToolUse"
        THEN IF HasKey(pending, key) THEN PendingDel(pending, key)
             ELSE PendingDelAnyOf(pending, tool_name)
        ELSE pending

RECURSIVE Sweep(_)
Sweep(sorted) ==
    IF sorted = <<>> THEN <<>>
    ELSE SweepStep(Sweep(SubSeq(sorted, 1, Len(sorted) - 1)), sorted[Len(sorted)])

UnpairedIssue(sid, p) ==
    [type |-> "unpaired_pretooluse", severity |-> "warning",
     tool |-> p.key[1], session_id |-> sid,
     timestamp |-> IF p.event.timestamp = AbsentStamp THEN NullStamp
                   ELSE p.event.timestamp]

SessionUnpaired(s, sid) ==
    LET pending == Sweep(SortedByTimestamp(SessionEvents(s, sid)))
    IN  [i \in 1..Len(pending) |-> UnpairedIssue(sid, pending[i])]

RECURSIVE UnpairedOf(_, _)
UnpairedOf(s, sids) ==
    IF sids = <<>> THEN <<>>
    ELSE SessionUnpaired(s, Head(sids)) \o UnpairedOf(s, Tail(sids))

audit_unpaired_events(s) == UnpairedOf(s, SessionIds(s))

-----------------------------------------------------------------------------
(* The event source of a session: it logs a PreToolUse when a tool call    *)
(* starts and a PostToolUse when it ends, stamped with its clock; a call   *)
(* that is interrupted ends without a PostToolUse.                         *)

NoDiff ==
    [added_tools |-> {}, removed_tools |-> {}, changed_tools |-> {},
     error_changes |-> <<>>, sequence_changes |-> <<>>,
     summary |-> [added_count |-> 0, removed_count |-> 0, changed_count |-> 0,
                  new_errors_count |-> 0, resolved_errors_count |-> 0,
                  has_regressions |-> FALSE]]

\* sessions.json: the kind of its content and, for an object, what its key
\* "sessions" holds
NoSessions == [kind |-> "missing", items |-> <<>>]
NoSessionsFile == [kind |-> "absent", sessions |-> NoSessions]

\* the sessions that can have a trace file
TraceSessions == 1..MaxTraces

InitRest ==
    /\ events2 = <<>>
    /\ health2 = <<100, 1>>
    /\ diff = NoDiff
    /\ file = <<>>
    /\ pos = 0
    /\ partial = <<>>
    /\ raised = "none"
    /\ loader = "load_trace"
    /\ sessions_file = NoSessionsFile
    /\ trace_files = [s \in TraceSessions |-> 0]
    /\ trace_file = 0
    /\ todo = <<>>
    /\ sweeping = <<>>
    /\ turn = 0
    /\ pending_pre = <<>>
    /\ pending_was = <<>>
    /\ oscillation_threshold = <<2, 5>>
    /\ results = <<>>
    /\ ran = <<>>
    /\ strict = FALSE
    /\ last_sizes = 0
    /\ current_size = 0
    /\ delivered = <<>>
    /\ last_event_id = Null
    /\ received = <<>>

InitCommon ==
    /\ events = <<>>
    /\ threshold = <<1, 10>>
    /\ issues = <<>>
    /\ metrics = <<>>
    /\ health = <<100, 1>>
    /\ pc = "loading"
    /\ open = {}
    /\ lost = FALSE
    /\ InitRest

\* the instants the source's clock can show from now on: it never runs backwards
Now ==
    {ts \in (0..MaxSec) \X Fractions :
        events = <<>> \/ TsLeq(events[Len(events)].timestamp, ts)}

LogPreToolUse(tool, ts) ==
    /\ pc = "loading"
    /\ Len(events) < MaxEvents
    /\ tool \notin open
    /\ events' = Append(events, Event("PreToolUse", tool, "s1", ts, "pending"))
    /\ open' = open \cup {tool}
    /\ UNCHANGED <<aside, threshold, issues, metrics, health, pc, lost>>

LogPostToolUse(tool, ts) ==
    /\ pc = "loading"
    /\ Len(events) < MaxEvents
    /\ tool \in open
    /\ events' = Append(events, Event("PostToolUse", tool, "s1", ts, "success"))
    /\ open' = open \ {tool}
    /\ UNCHANGED <<aside, threshold, issues, metrics, health, pc, lost>>

\* the one call of the trace that ends without its PostToolUse
Interrupt(tool) ==
    /\ pc = "loading"
    /\ tool \in open
    /\ ~lost
    /\ open' = open \ {tool}
    /\ lost' = TRUE
    /\ UNCHANGED <<aside, events, threshold, issues, metrics, health, pc>>

AuditUnpaired ==
    /\ pc = "loading"
    /\ issues' = issues \o audit_unpaired_events(events)
    /\ pc' = "unpaired"
    /\ UNCHANGED <<aside, events, threshold, metrics, health, open, lost>>

NextPairing ==
    \/ \E tool \in Tools, ts \in Now : LogPreToolUse(tool, ts)
    \/ \E tool \in Tools, ts \in Now : LogPostToolUse(tool, ts)
    \/ \E tool \in Tools : Interrupt(tool)
    \/ AuditUnpaired

SpecPairing == InitCommon /\ [][NextPairing]_vars

-----------------------------------------------------------------------------
(* Ratios <<num, den>> with den > 0, compared exactly. *)

RatioLeq(a, b) == a[1] * b[2] <= b[1] * a[2]
RatioLess(a, b) == a[1] * b[2] < b[1] * a[2]

\* round(100 * num / den, 1), in tenths: to the nearest, a tie to the even one
RoundPercentTenths(num, den) ==
    LET q == (1000 * num) \div den
        r == (1000 * num) % den
    IN  IF 2 * r < den THEN q
        ELSE IF 2 * r > den THEN q + 1
        ELSE IF q % 2 = 0 THEN q ELSE q + 1

-----------------------------------------------------------------------------
(* audit_tool_intermittency *)

CriticalRate == <<3, 10>>   \* error_rate < 0.3 is a warning
One == <<1, 1>>

IsPost(e) == e.event_type = "PostToolUse"

\* the keys of tool_stats, in order of first appearance
RECURSIVE StatTools(_)
StatTools(s) ==
    IF s = <<>> THEN <<>>
    ELSE LET rest == StatTools(SubSeq(s, 1, Len(s) - 1))
             e == s[Len(s)]
             tool == Get(e, "tool_name", "unknown")
         IN  IF ~IsPost(e) \/ (\E i \in 1..Len(rest) : rest[i] = tool) THEN rest
             ELSE Append(rest, tool)

\* status == "error" counts as an error, every other status as a success
CountsAsError(status) == status = "error"

\* tool_stats[tool] after the loop over the events
RECURSIVE ToolStats(_, _)
ToolStats(s, tool) ==
    IF s = <<>> THEN [success |-> 0, error |-> 0, sessions |-> {}]
    ELSE LET rest == ToolStats(SubSeq(s, 1, Len(s) - 1), tool)
             e == s[Len(s)]
         IN  IF IsPost(e) /\ Get(e, "tool_name", "unknown") = tool
             THEN LET sessions == rest.sessions \cup {Get(e, "session_id", "unknown")}
                  IN  IF CountsAsError(Get(e, "status", "unknown"))
                      THEN [success |-> rest.success, error |-> rest.error + 1,
                            sessions |-> sessions]
                      ELSE [success |-> rest.success + 1, error |-> rest.error,
                            sessions |-> sessions]
             ELSE rest

\* threshold <= error_rate < 1.0, for a tool with total >= 2
IsIntermittent_Inclusive(stats, thr) ==
    LET total == stats.success + stats.error
    IN  /\ total >= 2
        /\ RatioLeq(thr, <<stats.error, total>>)
        /\ RatioLeq(<<stats.error, total>>, One)

IsIntermittent(stats, thr) ==
    LET total == stats.success + stats.error
    IN  /\ total >= 2
        /\ RatioLeq(thr, <<stats.error, total>>)
        /\ RatioLess(<<stats.error, total>>, One)

Severity_StrictCritical(stats) ==
    IF RatioLeq(<<stats.error, stats.success + stats.error>>, CriticalRate)
    THEN "warning" ELSE "critical"

\* "warning" if error_rate < 0.3 else "critical"
Severity(stats) ==
    IF RatioLess(<<stats.error, stats.success + stats.error>>, CriticalRate)
    THEN "warning" ELSE "critical"

IntermittentIssue(tool, stats) ==
    [type |-> "intermittent_tool_failure", severity |-> Severity(stats),
     tool |-> tool, success_count |-> stats.success, error_count |-> stats.error,
     error_rate |-> RoundPercentTenths(stats.error, stats.success + stats.error),
     sessions_affected |-> Cardinality(stats.sessions)]

RECURSIVE IntermittentOf(_, _, _)
IntermittentOf(s, tools, thr) ==
    IF tools = <<>> THEN <<>>
    ELSE LET stats == ToolStats(s, Head(tools))
         IN  (IF IsIntermittent(stats, thr)
              THEN <<IntermittentIssue(Head(tools), stats)>> ELSE <<>>)
             \o IntermittentOf(s, Tail(tools), thr)

audit_tool_intermittency(s, thr) == IntermittentOf(s, StatTools(s), thr)

-----------------------------------------------------------------------------
(* MetricsCollector.get_tool_metrics.  The events of the model carry no      *)
(* duration_ms, so the duration statistics of a result are all 0 and are    *)
(* left out.                                                               *)

\* event_type == "PostToolUse" and tool_name
IsToolCall(e) == IsPost(e) /\ e.tool_name # Absent

RECURSIVE MetricTools(_)
MetricTools(s) ==
    IF s = <<>> THEN <<>>
    ELSE LET rest == MetricTools(SubSeq(s, 1, Len(s) - 1))
             e == s[Len(s)]
         IN  IF ~IsToolCall(e) \/ (\E i \in 1..Len(rest) : rest[i] = e.tool_name)
             THEN rest
             ELSE Append(rest, e.tool_name)

\* tool_stats[tool] of get_tool_metrics: a status that is neither "success" nor
\* "error" counts as a call and as nothing else
RECURSIVE MetricStats(_, _)
MetricStats(s, tool) ==
    IF s = <<>> THEN [tool |-> tool, calls |-> 0, success |-> 0, errors |-> 0]
    ELSE LET rest == MetricStats(SubSeq(s, 1, Len(s) - 1), tool)
             e == s[Len(s)]
         IN  IF IsToolCall(e) /\ e.tool_name = tool
             THEN [tool |-> tool, calls |-> rest.calls + 1,
                   success |-> rest.success + (IF e.status = "success" THEN 1 ELSE 0),
                   errors |-> rest.errors + (IF e.status = "error" THEN 1 ELSE 0)]
             ELSE rest

\* sorted(..., key=-calls): stable, the most called tool first
InsertByCalls(sorted, m) ==
    LET keep == {i \in 1..Len(sorted) : sorted[i].calls >= m.calls}
        n == IF keep = {} THEN 0 ELSE CHOOSE i \in keep : \A j \in keep : j <= i
    IN  SubSeq(sorted, 1, n) \o <<m>> \o SubSeq(sorted, n + 1, Len(sorted))

RECURSIVE SortedByCalls(_)
SortedByCalls(ms) ==
    IF ms = <<>> THEN <<>>
    ELSE InsertByCalls(SortedByCalls(SubSeq(ms, 1, Len(ms) - 1)), ms[Len(ms)])

get_tool_metrics(s) ==
    LET tools == MetricTools(s)
    IN  SortedByCalls([i \in 1..Len(tools) |-> MetricStats(s, tools[i])])

-----------------------------------------------------------------------------
(* Traces for the per-tool aggregates: the loader appends one record at a  *)
(* time.  Short traces range over every tool and status; long ones are one *)
(* tool's successes and errors.                                            *)

Thresholds == {<<0, 1>>, <<1, 10>>, <<1, 2>>}

Statuses == {"success", "error", "pending", Absent}

MixedEvents ==
    {Event("PostToolUse", tool, "s1", <<0, 0>>, status) :
        tool \in {"Bash", "Read"}, status \in Statuses}
    \cup {Event("PreToolUse", "Bash", "s1", <<0, 0>>, "error")}

BashCalls ==
    {Event("PostToolUse", "Bash", "s1", <<0, 0>>, status) :
        status \in {"success", "error"}}

InitIntermittency ==
    /\ events = <<>>
    /\ threshold \in Thresholds
    /\ issues = <<>>
    /\ metrics = <<>>
    /\ health = <<100, 1>>
    /\ pc = "loading"
    /\ open = {}
    /\ lost = FALSE
    /\ InitRest

LoadEvent(e) ==
    /\ pc = "loading"
    /\ \/ Len(events) < MaxMixed /\ e \in MixedEvents
       \/ /\ Len(events) < MaxCalls
          /\ e \in BashCalls
          /\ \A i \in 1..Len(events) : events[i] \in BashCalls
    /\ events' = Append(events, e)
    /\ UNCHANGED <<aside, threshold, issues, metrics, health, pc, open, lost>>

AuditToolIntermittency ==
    /\ pc = "loading"
    /\ issues' = issues \o audit_tool_intermittency(events, threshold)
    /\ pc' = "intermittency"
    /\ UNCHANGED <<aside, events, threshold, metrics, health, open, lost>>

GetToolMetrics ==
    /\ pc = "loading"
    /\ metrics' = get_tool_metrics(events)
    /\ pc' = "tool_metrics"
    /\ UNCHANGED <<aside, events, threshold, issues, health, open, lost>>

NextIntermittency ==
    \/ \E e \in MixedEvents : LoadEvent(e)
    \/ AuditToolIntermittency
    \/ GetToolMetrics

SpecIntermittency == InitIntermittency /\ [][NextIntermittency]_vars

-----------------------------------------------------------------------------
(* audit_oscillating_errors *)

FlipRate == <<2, 5>>   \* change_rate > 0.4

\* the key of tool_sequences: no default for a missing field
SequenceKey(e) == <<Get(e, "session_id", Null), Get(e, "tool_name", Null)>>

\* the keys of tool_sequences, in order of first appearance in the sorted events
RECURSIVE SequenceKeys(_)
SequenceKeys(sorted) ==
    IF sorted = <<>> THEN <<>>
    ELSE LET rest == SequenceKeys(SubSeq(sorted, 1, Len(sorted) - 1))
             e == sorted[Len(sorted)]
         IN  IF ~IsPost(e) \/ (\E i \in 1..Len(rest) : rest[i] = SequenceKey(e))
             THEN rest
             ELSE Append(rest, SequenceKey(e))

\* "error" if status == "error" else "success"
Outcome(e) == IF e.status = "error" THEN "error" ELSE "success"

\* tool_sequences[key]
RECURSIVE ToolSequence(_, _)
ToolSequence(sorted, key) ==
    IF sorted = <<>> THEN <<>>
    ELSE LET rest == ToolSequence(SubSeq(sorted, 1, Len(sorted) - 1), key)
             e == sorted[Len(sorted)]
         IN  IF IsPost(e) /\ SequenceKey(e) = key THEN Append(rest, Outcome(e))
             ELSE rest

\* sum(1 for i in range(1, len(sequence)) if sequence[i] != sequence[i-1])
Changes(sequence) ==
    Cardinality({i \in 2..Len(sequence) : sequence[i] # sequence[i - 1]})

\* the count gate left out: any sequence of 4 whose change rate is over 0.4
IsOscillating_RateOnly(sequence) ==
    /\ Len(sequence) >= 4
    /\ RatioLess(FlipRate, <<Changes(sequence), Len(sequence) - 1>>)

\* len(sequence) >= 4 and change_rate > 0.4 and changes >= 3
IsOscillating(sequence) ==
    /\ Len(sequence) >= 4
    /\ RatioLess(FlipRate, <<Changes(sequence), Len(sequence) - 1>>)
    /\ Changes(sequence) >= 3

OscillationIssue(key, sequence) ==
    [type |-> "oscillating_errors", severity |-> "warning",
     tool |-> key[2], session_id |-> key[1],
     pattern |-> SubSeq(sequence, 1, IF Len(sequence) < 10 THEN Len(sequence) ELSE 10),
     change_rate |-> RoundPercentTenths(Changes(sequence), Len(sequence) - 1)]

RECURSIVE OscillatingOf(_, _)
OscillatingOf(sorted, keys) ==
    IF keys = <<>> THEN <<>>
    ELSE LET sequence == ToolSequence(sorted, Head(keys))
         IN  (IF IsOscillating(sequence)
              THEN <<OscillationIssue(Head(keys), sequence)>> ELSE <<>>)
             \o OscillatingOf(sorted, Tail(keys))

audit_oscillating_errors(s) ==
    LET sorted == SortedByTimestamp(s)
    IN  OscillatingOf(sorted, SequenceKeys(sorted))

-----------------------------------------------------------------------------
(* audit_session_stability *)

\* sessions[session_id]: only SessionStart and SessionEnd are counted
RECURSIVE SessionCounts(_, _)
SessionCounts(s, sid) ==
    IF s = <<>> THEN [start |-> 0, end |-> 0, events |-> 0]
    ELSE LET rest == SessionCounts(SubSeq(s, 1, Len(s) - 1), sid)
             e == s[Len(s)]
         IN  IF Get(e, "session_id", "unknown") # sid THEN rest
             ELSE [start |-> rest.start + (IF e.event_type = "SessionStart" THEN 1 ELSE 0),
                   end |-> rest.end + (IF e.event_type = "SessionEnd" THEN 1 ELSE 0),
                   events |-> rest.events + 1]

\* stats["start"] > stats["end"] + 1
IsUnstable(stats) == stats.start > stats.end + 1

\* InstabilityIssue with a severity of its own
InstabilityIssue_Low(sid, stats) ==
    [type |-> "session_instability", severity |-> "low", session_id |-> sid,
     starts |-> stats.start, ends |-> stats.end]

InstabilityIssue(sid, stats) ==
    [type |-> "session_instability", severity |-> "info", session_id |-> sid,
     starts |-> stats.start, ends |-> stats.end]

RECURSIVE UnstableOf(_, _)
UnstableOf(s, sids) ==
    IF sids = <<>> THEN <<>>
    ELSE LET stats == SessionCounts(s, Head(sids))
         IN  (IF IsUnstable(stats) THEN <<InstabilityIssue(Head(sids), stats)>>
              ELSE <<>>)
             \o UnstableOf(s, Tail(sids))

audit_session_stability(s) == UnstableOf(s, SessionIds(s))

-----------------------------------------------------------------------------
(* Traces for the oscillation pass.  Short traces mix two sessions, two      *)
(* timestamps in any file order, and a PreToolUse; long ones are the         *)
(* outcomes of one tool in one session, in file order.                       *)

ShuffledEvents ==
    {Event("PostToolUse", "Edit", sid, ts, status) :
        sid \in {"s1", "s2"}, ts \in {<<0, 0>>, <<1, 0>>},
        status \in {"success", "error"}}
    \cup {Event("PostToolUse", "Edit", "s1", <<0, 0>>, "pending"),
          Event("PreToolUse", "Edit", "s1", <<0, 0>>, "error")}

EditOutcomes ==
    {Event("PostToolUse", "Edit", "s1", <<0, 0>>, status) :
        status \in {"success", "error"}}

LoadOutcome(e) ==
    /\ pc = "loading"
    /\ \/ Len(events) < MaxShuffled /\ e \in ShuffledEvents
       \/ /\ Len(events) < MaxSeq
          /\ e \in EditOutcomes
          /\ \A i \in 1..Len(events) : events[i] \in EditOutcomes
    /\ events' = Append(events, e)
    /\ UNCHANGED <<aside, threshold, issues, metrics, health, pc, open, lost>>

AuditOscillatingErrors ==
    /\ pc = "loading"
    /\ issues' = issues \o audit_oscillating_errors(events)
    /\ pc' = "oscillation"
    /\ UNCHANGED <<aside, events, threshold, metrics, health, open, lost>>

NextOscillation ==
    \/ \E e \in ShuffledEvents : LoadOutcome(e)
    \/ AuditOscillatingErrors

SpecOscillation == InitCommon /\ [][NextOscillation]_vars

-----------------------------------------------------------------------------
(* Traces for the session stability pass. *)

LifecycleEvents ==
    {Event(type, Absent, sid, <<0, 0>>, "success") :
        type \in {"SessionStart", "SessionEnd", "Stop", "Notification"},
        sid \in {"s1", "s2"}}

LoadLifecycle(e) ==
    /\ pc = "loading"
    /\ Len(events) < MaxLifecycle
    /\ events' = Append(events, e)
    /\ UNCHANGED <<aside, threshold, issues, metrics, health, pc, open, lost>>

AuditSessionStability ==
    /\ pc = "loading"
    /\ issues' = issues \o audit_session_stability(events)
    /\ pc' = "stability"
    /\ UNCHANGED <<aside, events, threshold, metrics, health, open, lost>>

NextStability ==
    \/ \E e \in LifecycleEvents : LoadLifecycle(e)
    \/ AuditSessionStability

SpecStability == InitCommon /\ [][NextStability]_vars

-----------------------------------------------------------------------------
(* MetricsCollector.compute_statistics and calculate_health_score.  The     *)
(* score is a Python float, an IEEE double: every division, product and     *)
(* difference is rounded to 53 significant bits, ties to even.  A float is  *)
(* a sign and a magnitude of three limbs counting units of 2^-56, which is  *)
(* exact for every magnitude below 128 that is 0 or at least 1/16.  The     *)
(* returned int is a ratio <<num, den>> whose den divides its num.          *)

RatioSub(a, b) == <<a[1] * b[2] - b[1] * a[2], a[2] * b[2]>>
RatioMin(a, b) == IF RatioLeq(a, b) THEN a ELSE b
RatioMax(a, b) == IF RatioLeq(a, b) THEN b ELSE a
Whole(n) == <<n, 1>>

Limb == 2097152    \* 2^21
Scale == 16384     \* 2^14: the top limb of 1.0

RECURSIVE BitLen(_)
BitLen(n) == IF n = 0 THEN 0 ELSE 1 + BitLen(n \div 2)

RECURSIVE Pow2(_)
Pow2(k) == IF k = 0 THEN 1 ELSE 2 * Pow2(k - 1)

\* carries and borrows moved up, every limb back in 0..Limb-1
Carry(m) ==
    LET b == m[2] + (m[3] \div Limb)
    IN  <<m[1] + (b \div Limb), b % Limb, m[3] % Limb>>

MagLess(x, y) ==
    \/ x[1] < y[1]
    \/ x[1] = y[1] /\ x[2] < y[2]
    \/ x[1] = y[1] /\ x[2] = y[2] /\ x[3] < y[3]

MagAdd(x, y) == Carry(<<x[1] + y[1], x[2] + y[2], x[3] + y[3]>>)
MagSub(x, y) == Carry(<<x[1] - y[1], x[2] - y[2], x[3] - y[3]>>)

\* the exact magnitude m + frac units, frac one of "zero", "below" (a half),
\* "half", "above", rounded to 53 significant bits, ties to even
Round53(m, frac) ==
    LET drop == BitLen(m[1]) - 11
    IN  IF drop < 0 THEN m
        ELSE LET unit == Pow2(drop)
                 rem == m[3] % unit
                 kept == m[3] - rem
                 odd == (kept \div unit) % 2 = 1
                 up == IF drop = 0
                       THEN frac = "above" \/ (frac = "half" /\ odd)
                       ELSE \/ 2 * rem > unit
                            \/ 2 * rem = unit /\ (frac # "zero" \/ odd)
             IN  Carry(<<m[1], m[2], kept + (IF up THEN unit ELSE 0)>>)

FloatOfInt(n) == [neg |-> FALSE, m |-> <<n * Scale, 0, 0>>]

\* n / d of two ints, n >= 0 and d > 0: long division, then one rounding
FloatDiv(n, d) ==
    LET t1 == n * Scale
        t2 == (t1 % d) * Limb
        t3 == (t2 % d) * Limb
        r == t3 % d
        frac == IF r = 0 THEN "zero"
                ELSE IF 2 * r < d THEN "below"
                ELSE IF 2 * r = d THEN "half" ELSE "above"
    IN  [neg |-> FALSE,
         m |-> Round53(Carry(<<t1 \div d, t2 \div d, t3 \div d>>), frac)]

\* x * k, k a small positive int
FloatMul(x, k) ==
    [neg |-> x.neg,
     m |-> Round53(Carry(<<x.m[1] * k, x.m[2] * k, x.m[3] * k>>), "zero")]

FloatSub(x, y) ==
    IF x.neg # y.neg
    THEN [neg |-> x.neg, m |-> Round53(MagAdd(x.m, y.m), "zero")]
    ELSE IF MagLess(x.m, y.m)
         THEN [neg |-> ~x.neg, m |-> Round53(MagSub(y.m, x.m), "zero")]
         ELSE [neg |-> x.neg /\ x.m # y.m,
               m |-> Round53(MagSub(x.m, y.m), "zero")]

FloatLess(x, y) ==
    IF x.neg # y.neg THEN x.neg /\ (x.m # <<0, 0, 0>> \/ y.m # <<0, 0, 0>>)
    ELSE IF x.neg THEN MagLess(y.m, x.m) ELSE MagLess(x.m, y.m)

FloatMin(x, y) == IF FloatLess(y, x) THEN y ELSE x

\* the score with its fraction kept, to 2^-14
IntOf_Untruncated(x) == <<IF x.neg THEN -x.m[1] ELSE x.m[1], Scale>>

\* int(score): the fraction is cut off, toward zero
IntOf(x) ==
    Whole(IF x.neg THEN -(x.m[1] \div Scale) ELSE x.m[1] \div Scale)

RECURSIVE SumOf(_, _)
SumOf(ms, field) ==
    IF ms = <<>> THEN 0 ELSE ms[1][field] + SumOf(Tail(ms), field)

\* the counts of compute_statistics that the score reads
compute_statistics(s) ==
    LET tool_metrics == get_tool_metrics(s)
    IN  [total_calls |-> SumOf(tool_metrics, "calls"),
         total_errors |-> SumOf(tool_metrics, "errors")]

UnreliableRate == FloatDiv(1, 5)   \* the literal 0.2

ErrorRatePenalty_SuccessRate(stats) ==
    IF stats.total_calls > 0
    THEN FloatMul(FloatDiv(stats.total_calls - stats.total_errors,
                           stats.total_calls), 40)
    ELSE FloatOfInt(0)

\* error_rate * 40, when there are calls
ErrorRatePenalty(stats) ==
    IF stats.total_calls > 0
    THEN FloatMul(FloatDiv(stats.total_errors, stats.total_calls), 40)
    ELSE FloatOfInt(0)

\* sum(1 for t in tool_metrics if t calls > 0 and errors / calls > 0.2)
Unreliable(tool_metrics) ==
    Cardinality({k \in 1..Len(tool_metrics) :
        /\ tool_metrics[k].calls > 0
        /\ FloatLess(UnreliableRate,
                     FloatDiv(tool_metrics[k].errors, tool_metrics[k].calls))})

\* min(unreliable * 10, 30)
UnreliablePenalty(tool_metrics) ==
    LET unreliable == Unreliable(tool_metrics)
    IN  FloatOfInt(IF unreliable * 10 < 30 THEN unreliable * 10 ELSE 30)

EventTypes(s) == {s[i].event_type : i \in 1..Len(s)}

\* 10 for no SessionStart, then 10 for neither a SessionEnd nor a Stop
CompletenessPenalty(s, score) ==
    LET started == IF "SessionStart" \notin EventTypes(s)
                   THEN FloatSub(score, FloatOfInt(10)) ELSE score
    IN  IF "SessionEnd" \notin EventTypes(s) /\ "Stop" \notin EventTypes(s)
        THEN FloatSub(started, FloatOfInt(10)) ELSE started

CountOfType(s, type) ==
    Cardinality({i \in 1..Len(s) : s[i].event_type = type})

\* (1 - min(post_count / pre_count, 1.0)) * 10, when pre_count > 0
PairingPenalty(s) ==
    LET pre_count == CountOfType(s, "PreToolUse")
        post_count == CountOfType(s, "PostToolUse")
    IN  IF pre_count > 0
        THEN LET pairing_rate ==
                   FloatMin(FloatDiv(post_count, pre_count), FloatOfInt(1))
             IN  FloatMul(FloatSub(FloatOfInt(1), pairing_rate), 10)
        ELSE FloatOfInt(0)

\* score before it is cut to an int and clamped
RawScore(s) ==
    FloatSub(
        CompletenessPenalty(s,
            FloatSub(FloatSub(FloatOfInt(100),
                ErrorRatePenalty(compute_statistics(s))),
                UnreliablePenalty(get_tool_metrics(s)))),
        PairingPenalty(s))

\* max(0, min(100, int(score)))
calculate_health_score(s) ==
    RatioMax(Whole(0), RatioMin(Whole(100), IntOf(RawScore(s))))

-----------------------------------------------------------------------------
(* Traces whose health is scored. *)

ScoredEvents ==
    {Event("PostToolUse", tool, "s1", <<0, 0>>, "error") :
        tool \in {"Read", "Bash", "Edit", "Write"}}
    \cup {Event("PostToolUse", tool, "s1", <<0, 0>>, "success") :
            tool \in {"Read", "Bash"}}
    \cup {Event("PostToolUse", Absent, "s1", <<0, 0>>, "pending"),
          Event("PreToolUse", "Read", "s1", <<0, 0>>, "pending")}
    \cup {Event(type, Absent, "s1", <<0, 0>>, "success") :
            type \in {"SessionStart", "SessionEnd", "Stop"}}

LoadScored(e) ==
    /\ pc = "loading"
    /\ Len(events) < MaxScored
    /\ events' = Append(events, e)
    /\ UNCHANGED <<aside, threshold, issues, metrics, health, pc, open, lost>>

CalculateHealthScore ==
    /\ pc = "loading"
    /\ health' = calculate_health_score(events)
    /\ pc' = "health"
    /\ UNCHANGED <<aside, events, threshold, issues, metrics, open, lost>>

NextHealth ==
    \/ \E e \in ScoredEvents : LoadScored(e)
    \/ CalculateHealthScore

SpecHealth == InitCommon /\ [][NextHealth]_vars

-----------------------------------------------------------------------------
(* Two traces, each scored by its own MetricsCollector.  A trace lists its  *)
(* events kind by kind; the score reads counts only.                         *)

ComparedKinds ==
    <<Event("PreToolUse", "Read", "s1", <<0, 0>>, "pending"),
      Event("PostToolUse", "Read", "s1", <<0, 0>>, "success"),
      Event("PostToolUse", "Read", "s1", <<0, 0>>, "error"),
      Event("PostToolUse", "Bash", "s1", <<0, 0>>, "error"),
      Event("PostToolUse", Absent, "s1", <<0, 0>>, "success")>>

\* s with one more event of the k-th kind, no earlier kind after a later one
Grouped(s, k) ==
    IF s = <<>> THEN TRUE ELSE \E j \in 1..k : s[Len(s)] = ComparedKinds[j]

LoadFirst(k) ==
    /\ pc = "loading"
    /\ Len(events) < MaxCompared
    /\ Grouped(events, k)
    /\ events' = Append(events, ComparedKinds[k])
    /\ UNCHANGED <<threshold, issues, metrics, health, pc, open, lost,
                   events2, health2, diff, reading, indexed,
                   later>>

LoadSecond(k) ==
    /\ pc \in {"loading", "loading2"}
    /\ Len(events2) < MaxCompared
    /\ Grouped(events2, k)
    /\ events2' = Append(events2, ComparedKinds[k])
    /\ pc' = "loading2"
    /\ UNCHANGED <<events, threshold, issues, metrics, health, open, lost,
                   health2, diff, reading, indexed,
                   later>>

ScoreBoth ==
    /\ pc \in {"loading", "loading2"}
    /\ health' = calculate_health_score(events)
    /\ health2' = calculate_health_score(events2)
    /\ pc' = "scored"
    /\ UNCHANGED <<events, threshold, issues, metrics, open, lost,
                   events2, diff, reading, indexed,
                   later>>

NextCompared ==
    \/ \E k \in 1..Len(ComparedKinds) : LoadFirst(k)
    \/ \E k \in 1..Len(ComparedKinds) : LoadSecond(k)
    \/ ScoreBoth

SpecCompared == InitCommon /\ [][NextCompared]_vars

-----------------------------------------------------------------------------
(* One long trace, its events listed kind by kind, scored. *)

LoadLong(k) ==
    /\ pc = "loading"
    /\ Len(events) < MaxLong
    /\ Grouped(events, k)
    /\ events' = Append(events, ComparedKinds[k])
    /\ UNCHANGED <<aside, threshold, issues, metrics, health, pc, open, lost>>

NextLongHealth ==
    \/ \E k \in 1..Len(ComparedKinds) : LoadLong(k)
    \/ CalculateHealthScore

SpecLongHealth == InitCommon /\ [][NextLongHealth]_vars

-----------------------------------------------------------------------------
(* diff-engine: analyze_trace and compare_traces.  A tool key, the string    *)
(* "event_type:tool_name", is the pair <<event_type, tool_name>>.  A list    *)
(* built from a Python set, whose order is not determined, is a set.        *)

Truthy(x) == x # Absent /\ x # ""

Signature(e) == <<Get(e, "event_type", "unknown"), e.tool_name>>

\* the positions of the events counted under key
KeyEvents(s, key) ==
    {i \in 1..Len(s) : Truthy(s[i].tool_name) /\ Signature(s[i]) = key}

KeyCount_Completed(s, key) ==
    Cardinality({i \in KeyEvents(s, key) : s[i].status # "error"})

KeyCount(s, key) == Cardinality(KeyEvents(s, key))

KeyErrors_FirstRun(s, key) ==
    Cardinality({i \in KeyEvents(s, key) :
        /\ s[i].status = "error"
        /\ \A j \in 1..(i - 1) : s[j].status = "error"})

KeyErrors(s, key) ==
    Cardinality({i \in KeyEvents(s, key) : s[i].status = "error"})

RECURSIVE KeyStatuses(_, _)
KeyStatuses(s, key) ==
    IF s = <<>> THEN <<>>
    ELSE LET before == KeyStatuses(SubSeq(s, 1, Len(s) - 1), key)
         IN  IF Len(s) \in KeyEvents(s, key)
             THEN Append(before, s[Len(s)].status) ELSE before

RECURSIVE ErrorList(_)
ErrorList(s) ==
    IF s = <<>> THEN <<>>
    ELSE LET before == ErrorList(SubSeq(s, 1, Len(s) - 1))
             e == s[Len(s)]
         IN  IF Truthy(e.tool_name) /\ e.status = "error"
             THEN Append(before, [tool |-> e.tool_name,
                                  error |-> IF "error_message" \in DOMAIN e
                                            THEN e.error_message
                                            ELSE "Unknown"])
             ELSE before

analyze_trace(s) ==
    LET errors == ErrorList(s)
    IN  [tool_calls |->
            [key \in {Signature(s[i]) :
                        i \in {j \in 1..Len(s) : Truthy(s[j].tool_name)}} |->
                [count |-> KeyCount(s, key),
                 errors |-> KeyErrors(s, key),
                 statuses |-> KeyStatuses(s, key)]],
         event_sequence |->
            [i \in 1..Len(s) |->
                [type |-> Get(s[i], "event_type", "unknown"),
                 tool |-> s[i].tool_name,
                 status |-> s[i].status]],
         total_events |-> Len(s),
         errors |-> errors,
         error_count |-> Len(errors)]

CounterChanges_Every(stats1, stats2) ==
    [counter \in {"count", "errors"} |->
        [from |-> stats1[counter], to |-> stats2[counter]]]

\* the from/to pairs of the counters of a key that differ
CounterChanges(stats1, stats2) ==
    [counter \in {c \in {"count", "errors"} : stats1[c] # stats2[c]} |->
        [from |-> stats1[counter], to |-> stats2[counter]]]

ErrorTools(trace) == {trace.errors[i].tool : i \in 1..Len(trace.errors)}

\* [e["tool"] for e in event_sequence if e["tool"]]
NamedSequence(trace) ==
    LET named == SelectSeq(trace.event_sequence, LAMBDA e : Truthy(e.tool))
    IN  [i \in 1..Len(named) |-> named[i].tool]

NewErrors_AllOfSecond(errors1, errors2) == errors2

NewErrors(errors1, errors2) == errors2 \ errors1
ResolvedErrors(errors1, errors2) == errors1 \ errors2

HasRegressions_AnyErrorChange(new_errors, changed_tools) ==
    \/ new_errors # {}
    \/ \E c \in changed_tools : "errors" \in DOMAIN c.changes

\* len(new_errors) > 0 or any(changes.errors.to > changes.errors.from)
HasRegressions(new_errors, changed_tools) ==
    \/ new_errors # {}
    \/ \E c \in changed_tools :
         (IF "errors" \in DOMAIN c.changes THEN c.changes["errors"].to ELSE 0)
           > (IF "errors" \in DOMAIN c.changes
              THEN c.changes["errors"].from ELSE 0)

compare_traces(trace1, trace2) ==
    LET tools1 == DOMAIN trace1.tool_calls
        tools2 == DOMAIN trace2.tool_calls
        added_tools == tools2 \ tools1
        removed_tools == tools1 \ tools2
        common_tools == tools1 \cap tools2
        changed_tools ==
            {[tool |-> tool,
              changes |-> CounterChanges(trace1.tool_calls[tool],
                                  trace2.tool_calls[tool])] :
                tool \in {t \in common_tools :
                    DOMAIN CounterChanges(trace1.tool_calls[t],
                                   trace2.tool_calls[t]) # {}}}
        new_errors == NewErrors(ErrorTools(trace1), ErrorTools(trace2))
        resolved_errors == ResolvedErrors(ErrorTools(trace1), ErrorTools(trace2))
        seq1 == NamedSequence(trace1)
        seq2 == NamedSequence(trace2)
    IN  [added_tools |-> added_tools,
         removed_tools |-> removed_tools,
         changed_tools |-> changed_tools,
         error_changes |->
            (IF new_errors # {}
             THEN <<[type |-> "new_errors", tools |-> new_errors]>> ELSE <<>>)
            \o (IF resolved_errors # {}
                THEN <<[type |-> "resolved_errors", tools |-> resolved_errors]>>
                ELSE <<>>),
         sequence_changes |->
            IF seq1 # seq2
            THEN <<[description |-> "Tool call sequence differs",
                    trace1_length |-> Len(seq1),
                    trace2_length |-> Len(seq2)]>>
            ELSE <<>>,
         summary |->
            [added_count |-> Cardinality(added_tools),
             removed_count |-> Cardinality(removed_tools),
             changed_count |-> Cardinality(changed_tools),
             new_errors_count |-> Cardinality(new_errors),
             resolved_errors_count |-> Cardinality(resolved_errors),
             has_regressions |-> HasRegressions(new_errors, changed_tools)]]

-----------------------------------------------------------------------------
(* The two traces a diff compares. *)

DiffEvents ==
    {Event("PostToolUse", "Read", "s1", <<0, 0>>, "success"),
     Event("PostToolUse", "Read", "s1", <<0, 0>>, "error"),
     Event("PostToolUse", "Bash", "s1", <<0, 0>>, "error"),
     Event("PreToolUse", "Read", "s1", <<0, 0>>, "pending"),
     Event("SessionStart", Absent, "s1", <<0, 0>>, "success")}

LoadTrace1(e) ==
    /\ pc = "loading"
    /\ Len(events) + Len(events2) < MaxDiffEvents
    /\ events' = Append(events, e)
    /\ UNCHANGED <<threshold, issues, metrics, health, pc, open, lost,
                   events2, health2, diff, reading, indexed,
                   later>>

LoadTrace2(e) ==
    /\ pc \in {"loading", "loading2"}
    /\ Len(events) + Len(events2) < MaxDiffEvents
    /\ events2' = Append(events2, e)
    /\ pc' = "loading2"
    /\ UNCHANGED <<events, threshold, issues, metrics, health, open, lost,
                   health2, diff, reading, indexed,
                   later>>

CompareTraces ==
    /\ pc \in {"loading", "loading2"}
    /\ diff' = compare_traces(analyze_trace(events), analyze_trace(events2))
    /\ pc' = "compared"
    /\ UNCHANGED <<events, threshold, issues, metrics, health, open, lost,
                   events2, health2, reading, indexed,
                   later>>

NextDiff ==
    \/ \E e \in DiffEvents : LoadTrace1(e)
    \/ \E e \in DiffEvents : LoadTrace2(e)
    \/ CompareTraces

SpecDiff == InitCommon /\ [][NextDiff]_vars

-----------------------------------------------------------------------------
(* The loaders: load_trace of diff-engine and log-parser, load_traces of the *)
(* auditors, MetricsCollector._load_events.  A file is a sequence of pieces  *)
(* of text: the two halves of a record's JSON object, a JSON number, text    *)
(* that is no JSON, white space, a newline.                                  *)

Piece(t, id) == [t |-> t, id |-> id]
Newline == Piece("newline", 0)

\* the text of a line of a kind
LineOf(kind, id) ==
    IF kind = "record" THEN <<Piece("head", id), Piece("tail", id)>>
    ELSE IF kind = "blank" THEN <<>>
    ELSE IF kind = "spaces" THEN <<Piece("space", 0)>>
    ELSE IF kind = "number" THEN <<Piece("number", 0)>>
    ELSE <<Piece("garbage", 0)>>

LineKinds == {"record", "blank", "spaces", "number", "garbage"}

Loaders ==
    {"diff-engine.load_trace", "log-parser.load_trace",
     "IntermittencyAuditor.load_traces", "MetricsCollector._load_events"}

RECURSIVE StripLeft(_)
StripLeft(text) ==
    IF text # <<>> /\ text[1].t = "space" THEN StripLeft(Tail(text)) ELSE text

RECURSIVE StripRight(_)
StripRight(text) ==
    IF text # <<>> /\ text[Len(text)].t = "space"
    THEN StripRight(SubSeq(text, 1, Len(text) - 1)) ELSE text

\* line.strip()
Strip(text) == StripRight(StripLeft(text))

\* json.loads(line): an object, a number, or JSONDecodeError
json_loads(text) ==
    IF /\ Len(text) = 2
       /\ text[1].t = "head" /\ text[2].t = "tail" /\ text[1].id = text[2].id
    THEN [ok |-> TRUE, value |-> [kind |-> "record", id |-> text[1].id]]
    ELSE IF Len(text) = 1 /\ text[1].t = "number"
         THEN [ok |-> TRUE, value |-> [kind |-> "number", id |-> 0]]
         ELSE [ok |-> FALSE, value |-> [kind |-> "none", id |-> 0]]

\* event['_source_file'] = trace_file.name, before the append
Annotates(ld) == ld = "IntermittencyAuditor.load_traces"

\* the body of "for line in f", on the events loaded so far
LoadLine(ld, line, st) ==
    IF st.raised # "none" THEN st
    ELSE LET text == Strip(line)
         IN  IF text = <<>> THEN st
             ELSE LET parsed == json_loads(text)
                  IN  IF ~parsed.ok THEN st
                      ELSE IF Annotates(ld) /\ parsed.value.kind # "record"
                           THEN [st EXCEPT !.raised = "TypeError"]
                           ELSE [st EXCEPT !.events = Append(@, parsed.value)]

\* the lines that end in data, loaded one by one; line is the text since the
\* last newline
RECURSIVE LoadData(_, _, _, _)
LoadData(ld, data, line, st) ==
    IF data = <<>> THEN [st |-> st, partial |-> line]
    ELSE IF Head(data) = Newline
         THEN LoadData(ld, Tail(data), <<>>, LoadLine(ld, line, st))
         ELSE LoadData(ld, Tail(data), Append(line, Head(data)), st)

InitFiles ==
    /\ events = <<>>
    /\ threshold = <<1, 10>>
    /\ issues = <<>>
    /\ metrics = <<>>
    /\ health = <<100, 1>>
    /\ pc = "writing"
    /\ open = {}
    /\ lost = FALSE
    /\ InitRest

\* the records written to the file so far
Written == Cardinality({i \in 1..Len(file) : file[i].t = "head"})

\* a whole line is in the file before the load begins
WriteLine(kind) ==
    /\ pc = "writing"
    /\ Cardinality({i \in 1..Len(file) : file[i] = Newline}) < MaxLines
    /\ file' = file \o LineOf(kind, Written + 1) \o <<Newline>>
    /\ UNCHANGED <<events, threshold, issues, metrics, health, pc, open, lost,
                   compared, pos, partial, raised, loader, indexed,
                   later>>

\* open(trace_file, 'r')
OpenTrace(ld) ==
    /\ pc = "writing"
    /\ loader' = ld
    /\ pc' = "reading"
    /\ UNCHANGED <<events, threshold, issues, metrics, health, open, lost,
                   compared, file, pos, partial, raised, indexed,
                   later>>

\* one read of the file by "for line in f", and the loop body for every line
\* the read completes; at the end of the file the text after the last newline
\* is the last line, and nothing after it ends the loop
ReadMore ==
    /\ pc = "reading"
    /\ LET data == SubSeq(file, pos + 1, Len(file))
           st == [events |-> events, raised |-> "none"]
           read == LoadData(loader, data, partial, st)
           last == LoadLine(loader, partial, st)
           after == IF data # <<>> THEN read.st ELSE last
       IN  IF data = <<>> /\ partial = <<>>
           THEN /\ pc' = "loaded"
                /\ UNCHANGED <<events, pos, partial, raised>>
           ELSE /\ events' = after.events
                /\ raised' = after.raised
                /\ pos' = Len(file)
                /\ partial' = IF data # <<>> /\ after.raised = "none"
                              THEN read.partial ELSE <<>>
                /\ pc' = IF after.raised = "none" THEN "reading" ELSE "raised"
    /\ UNCHANGED <<threshold, issues, metrics, health, open, lost,
                   compared, file, loader, indexed,
                   later>>

NextLoader ==
    \/ \E kind \in LineKinds : WriteLine(kind)
    \/ \E ld \in Loaders : OpenTrace(ld)
    \/ ReadMore

SpecLoader == InitFiles /\ [][NextLoader]_vars

-----------------------------------------------------------------------------
(* A live session appends records to the trace file while it is loaded. *)

\* what the writer appends next: a record's first half, its second half, the
\* newline that ends its line
NextPiece ==
    IF file = <<>> THEN Piece("head", 1)
    ELSE IF file[Len(file)] = Newline THEN Piece("head", Written + 1)
    ELSE IF file[Len(file)].t = "head" THEN Piece("tail", Written)
    ELSE Newline

AppendPiece ==
    /\ pc \in {"writing", "reading"}
    /\ NextPiece.t = "head" => Written < MaxAppended
    /\ file' = Append(file, NextPiece)
    /\ UNCHANGED <<events, threshold, issues, metrics, health, pc, open, lost,
                   compared, pos, partial, raised, loader, indexed,
                   later>>

NextAppend ==
    \/ AppendPiece
    \/ \E ld \in Loaders : OpenTrace(ld)
    \/ ReadMore

SpecAppend == InitFiles /\ [][NextAppend]_vars

-----------------------------------------------------------------------------
(* MetricsCollector._load_events with no session requested: the session the *)
(* index names, else the most recently modified trace file.  A trace file   *)
(* of session s holds one record, numbered s.  started_at is a string or a  *)
(* number, v its rank among the values of its type; "" (no started_at) is   *)
(* the string of rank 0.  session_id 0 is an entry with no session_id.      *)

StartedAts ==
    {[type |-> "str", v |-> 0], [type |-> "str", v |-> 1],
     [type |-> "int", v |-> 1]}

IndexEntries ==
    {[kind |-> "number", session_id |-> 0, started_at |-> [type |-> "str", v |-> 0]]}
    \cup [kind : {"dict"}, session_id : 0..MaxTraces, started_at : StartedAts]

\* what sessions.json can be: no file, an empty file, text that is no JSON, a
\* list, a number, an object
FileKinds == {"absent", "empty", "invalid", "list", "number", "dict"}

\* what "sessions" of the object can be: not there, null, a number, a string,
\* a list
SessionsKinds == {"missing", "null", "number", "string", "list"}

\* max(sessions, key=lambda s: s.get("started_at", "")): the key of each item
\* is computed, then compared with the key of the greatest so far; the first
\* of the greatest wins
RECURSIVE MaxSession(_, _, _)
MaxSession(items, k, best) ==
    IF k > Len(items) THEN [raised |-> "none", latest |-> best]
    ELSE IF items[k].kind # "dict"
         THEN [raised |-> "AttributeError", latest |-> best]
         ELSE IF best = 0 THEN MaxSession(items, k + 1, k)
         ELSE IF items[k].started_at.type # items[best].started_at.type
              THEN [raised |-> "TypeError", latest |-> best]
              ELSE MaxSession(items, k + 1,
                              IF items[k].started_at.v > items[best].started_at.v
                              THEN k ELSE best)

\* the try block over sessions.json: the session it names (0: none), or the
\* exception that leaves it; JSONDecodeError and IOError are caught
IndexLookup(f) ==
    IF f.kind \in {"absent", "empty"} THEN [raised |-> "none", session |-> 0]
    ELSE IF f.kind = "invalid" THEN [raised |-> "none", session |-> 0]
    ELSE IF f.kind # "dict" THEN [raised |-> "AttributeError", session |-> 0]
    ELSE IF f.sessions.kind \in {"missing", "null"}
         THEN [raised |-> "none", session |-> 0]
    ELSE IF f.sessions.kind = "number"
         THEN [raised |-> "TypeError", session |-> 0]
    ELSE IF f.sessions.kind = "string"
         THEN [raised |-> "AttributeError", session |-> 0]
    ELSE IF f.sessions.items = <<>> THEN [raised |-> "none", session |-> 0]
    ELSE LET found == MaxSession(f.sessions.items, 1, 0)
         IN  IF found.raised # "none"
             THEN [raised |-> found.raised, session |-> 0]
             ELSE [raised |-> "none",
                   session |-> f.sessions.items[found.latest].session_id]

\* trace_file.exists()
Exists(session) == session \in TraceSessions /\ trace_files[session] > 0

\* list(self.traces_dir.glob("session_*.jsonl"))
Globbed == {s \in TraceSessions : trace_files[s] > 0}

\* max(trace_files, key=lambda f: f.stat().st_mtime): of files modified at the
\* same time, the one the directory lists first
MostRecent ==
    {s \in Globbed : \A o \in Globbed : trace_files[o] <= trace_files[s]}

\* the text of the trace file of a session
TraceText(session) == LineOf("record", session) \o <<Newline>>

\* the events of a trace file, as _load_events loads them
EventsOf_File(session) ==
    LoadData("MetricsCollector._load_events", TraceText(session), <<>>,
             [events |-> <<>>, raised |-> "none"]).st.events

\* sessions.json is written, or removed
WriteSessionsFile(kind, sessions) ==
    /\ pc = "writing"
    /\ sessions_file' =
         [kind |-> kind,
          sessions |-> IF kind = "dict" THEN [kind |-> sessions, items |-> <<>>]
                       ELSE NoSessions]
    /\ UNCHANGED <<events, threshold, issues, metrics, health, pc, open, lost,
                   compared, reading, trace_files, trace_file,
                   later>>

\* an entry is added to the "sessions" list
AddSession(entry) ==
    /\ pc = "writing"
    /\ sessions_file.kind = "dict" /\ sessions_file.sessions.kind = "list"
    /\ Len(sessions_file.sessions.items) < MaxIndexed
    /\ sessions_file' =
         [sessions_file EXCEPT !.sessions.items = Append(@, entry)]
    /\ UNCHANGED <<events, threshold, issues, metrics, health, pc, open, lost,
                   compared, reading, trace_files, trace_file,
                   later>>

\* a trace file is written at a time
WriteTrace(session, mtime) ==
    /\ pc = "writing"
    /\ trace_files' = [trace_files EXCEPT ![session] = mtime]
    /\ UNCHANGED <<events, threshold, issues, metrics, health, pc, open, lost,
                   compared, reading, sessions_file, trace_file,
                   later>>

\* _load_events, self.session_id None
LoadEvents ==
    /\ pc = "writing"
    /\ LET found == IndexLookup(sessions_file)
       IN  IF found.raised # "none"
           THEN /\ raised' = found.raised
                /\ pc' = "raised"
                /\ UNCHANGED <<events, trace_file>>
           ELSE /\ \E f \in (IF Exists(found.session) THEN {found.session}
                             ELSE IF Globbed = {} THEN {0} ELSE MostRecent) :
                      /\ trace_file' = f
                      /\ events' = IF f = 0 THEN <<>> ELSE EventsOf_File(f)
                /\ pc' = "loaded"
                /\ UNCHANGED raised
    /\ UNCHANGED <<threshold, issues, metrics, health, open, lost,
                   compared, file, pos, partial, loader, sessions_file,
                   trace_files,
                   later>>

NextIndex ==
    \/ \E kind \in FileKinds, sessions \in SessionsKinds :
         WriteSessionsFile(kind, sessions)
    \/ \E entry \in IndexEntries : AddSession(entry)
    \/ \E session \in TraceSessions, mtime \in 1..MaxTraces :
         WriteTrace(session, mtime)
    \/ LoadEvents

SpecIndex == InitFiles /\ [][NextIndex]_vars

-----------------------------------------------------------------------------
(* audit_unpaired_events, a turn of its loops at a time.  Each event of the *)
(* session under the sweep carries its place in the sorted list, as the    *)
(* Python object carries its identity.                                      *)

SweptStamps == {<<0, 0>>, <<1, 0>>, <<1, 1>>, <<2, 0>>}

\* the events of a swept trace: two tools in session s1, one in session s2
SweptEvents ==
    {Event(type, c[1], c[2], ts, IF type = "PreToolUse" THEN "pending" ELSE "success") :
       type \in {"PreToolUse", "PostToolUse"},
       c \in {<<"Write", "s1">>, <<"Bash", "s1">>, <<"Write", "s2">>},
       ts \in SweptStamps}

LoadSwept(e) ==
    /\ pc = "loading"
    /\ Len(events) < MaxSwept
    /\ events' = Append(events, e)
    /\ UNCHANGED <<aside, threshold, issues, metrics, health, pc, open, lost>>

\* the events of a list, each with its place in it
Placed(s) ==
    [i \in 1..Len(s) |->
       [event_type |-> s[i].event_type, tool_name |-> s[i].tool_name,
        session_id |-> s[i].session_id, timestamp |-> s[i].timestamp,
        status |-> s[i].status, at |-> i]]

\* sessions[...].append(event) for every event
GroupSessions ==
    /\ pc = "loading"
    /\ todo' = SessionIds(events)
    /\ pc' = IF SessionIds(events) = <<>> THEN "unpaired" ELSE "sessions"
    /\ UNCHANGED <<events, threshold, issues, metrics, health, open, lost,
                   compared, reading, indexed, sweeping, turn, pending_pre,
                   pending_was, audited, watched, polled>>

\* for session_id, session_events in sessions.items(): pending_pre = {} and
\* sorted(session_events, ...)
BeginSession ==
    /\ pc = "sessions"
    /\ sweeping' = Placed(SortedByTimestamp(SessionEvents(events, Head(todo))))
    /\ turn' = 0
    /\ pending_pre' = <<>>
    /\ pending_was' = <<>>
    /\ pc' = "sweeping"
    /\ UNCHANGED <<events, threshold, issues, metrics, health, open, lost,
                   compared, reading, indexed, todo, audited, watched, polled>>

\* one turn of "for event in sorted(...)"
SweepTurn ==
    /\ pc = "sweeping"
    /\ turn < Len(sweeping)
    /\ pending_was' = pending_pre
    /\ pending_pre' = SweepStep(pending_pre, sweeping[turn + 1])
    /\ turn' = turn + 1
    /\ UNCHANGED <<events, threshold, issues, metrics, health, pc, open, lost,
                   compared, reading, indexed, todo, sweeping, audited,
                   watched, polled>>

\* "Report unpaired PreToolUse events" of the session, then the next session
ReportSession ==
    /\ pc = "sweeping"
    /\ turn = Len(sweeping)
    /\ issues' = issues \o [i \in 1..Len(pending_pre) |->
                              UnpairedIssue(Head(todo), pending_pre[i])]
    /\ todo' = Tail(todo)
    /\ pc' = IF Tail(todo) = <<>> THEN "unpaired" ELSE "sessions"
    /\ UNCHANGED <<events, threshold, metrics, health, open, lost,
                   compared, reading, indexed, sweeping, turn, pending_pre,
                   pending_was, audited, watched, polled>>

NextSweep ==
    \/ \E e \in SweptEvents : LoadSwept(e)
    \/ GroupSessions
    \/ BeginSession
    \/ SweepTurn
    \/ ReportSession

SpecSweep == InitCommon /\ [][NextSweep]_vars

-----------------------------------------------------------------------------
(* run_audit of IntermittencyAuditor: the four passes, each appending to    *)
(* self.issues, and the result it returns.                                  *)

\* the checks of run_audit, in its order
Passes ==
    <<"audit_tool_intermittency", "audit_unpaired_events",
      "audit_oscillating_errors", "audit_session_stability">>

\* Pass with a check that returns at once when issues were found before it
Pass_QuietAfterIssues(p, s) ==
    IF issues # <<>> THEN <<>>
    ELSE IF p = "audit_tool_intermittency" THEN audit_tool_intermittency(s, threshold)
    ELSE IF p = "audit_unpaired_events" THEN audit_unpaired_events(s)
    ELSE IF p = "audit_oscillating_errors" THEN audit_oscillating_errors(s)
    ELSE audit_session_stability(s)

\* what a check appends to self.issues
Pass(p, s) ==
    IF p = "audit_tool_intermittency" THEN audit_tool_intermittency(s, threshold)
    ELSE IF p = "audit_unpaired_events" THEN audit_unpaired_events(s)
    ELSE IF p = "audit_oscillating_errors" THEN audit_oscillating_errors(s)
    ELSE audit_session_stability(s)

\* [i for i in self.issues if i.get("severity") == severity]
OfSeverity(found, severity) == SelectSeq(found, LAMBDA i : i.severity = severity)

\* the result of a run with events
Completed(s, found) ==
    [audit_type |-> "intermittency", status |-> "completed",
     total_events_analyzed |-> Len(s),
     summary |-> [total_issues |-> Len(found),
                  critical |-> Len(OfSeverity(found, "critical")),
                  warning |-> Len(OfSeverity(found, "warning")),
                  info |-> Len(OfSeverity(found, "info"))],
     issues |-> found]

\* the result of a run without events
NoData == [audit_type |-> "intermittency", status |-> "no_data", issues |-> <<>>]

\* the events of an audited trace: one tool in one session at one instant
AuditedEvents ==
    {Event("PostToolUse", "Bash", "s1", <<0, 0>>, "success"),
     Event("PostToolUse", "Bash", "s1", <<0, 0>>, "error"),
     Event("PreToolUse", "Bash", "s1", <<0, 0>>, "pending"),
     Event("SessionStart", Absent, "s1", <<0, 0>>, "started"),
     Event("SessionEnd", Absent, "s1", <<0, 0>>, "ended")}

LoadAudited(e) ==
    /\ pc = "loading"
    /\ Len(events) < MaxAudited
    /\ events' = Append(events, e)
    /\ UNCHANGED <<aside, threshold, issues, metrics, health, pc, open, lost>>

\* audit_unpaired_events raises TypeError: sorted() compares a None key, or
\* the only event of a session has a None timestamp, which [:19] slices
UnpairedRaises(s) == \E k \in 1..Len(s) : s[k].timestamp = NullStamp

\* run_audit, from load_traces to its return or to the exception that leaves
\* it; audit_tool_intermittency, which reads no timestamp, has run by then
RunAudit ==
    /\ pc \in {"loading", "returned"}
    /\ Len(results) < MaxRuns
    /\ IF events = <<>>
       THEN /\ results' = Append(results, NoData)
            /\ pc' = "returned"
            /\ UNCHANGED <<issues, raised>>
       ELSE IF UnpairedRaises(events)
       THEN /\ issues' = issues \o Pass(Passes[1], events)
            /\ raised' = "TypeError"
            /\ pc' = "raised"
            /\ UNCHANGED results
       ELSE LET found == issues \o Pass(Passes[1], events) \o Pass(Passes[2], events)
                                \o Pass(Passes[3], events) \o Pass(Passes[4], events)
            IN  /\ issues' = found
                /\ results' = Append(results, Completed(events, found))
                /\ pc' = "returned"
                /\ UNCHANGED raised
    /\ UNCHANGED <<events, threshold, metrics, health, open, lost,
                   compared, file, pos, partial, loader, indexed, swept,
                   oscillation_threshold, ran, strict, watched, polled>>

NextRerun ==
    \/ \E e \in AuditedEvents : LoadAudited(e)
    \/ RunAudit

SpecRerun == InitCommon /\ [][NextRerun]_vars

\* events with a field absent or null, and events of an unknown type
OptionalBases ==
    {Event("PreToolUse", "Bash", "s1", <<0, 0>>, "pending"),
     Event("PostToolUse", "Bash", "s1", <<0, 0>>, "error"),
     Event("PostToolUse", "Bash", "s1", <<0, 0>>, "success"),
     Event("Mystery", "Bash", "s1", <<0, 0>>, "success")}

OptionalEvents ==
    OptionalBases
    \cup {[e EXCEPT ![field] = v] :
            e \in OptionalBases,
            field \in {"event_type", "tool_name", "session_id", "status"},
            v \in {Absent, Null}}
    \cup {[e EXCEPT !.timestamp = v] :
            e \in OptionalBases, v \in {AbsentStamp, NullStamp}}

LoadOptional(e) ==
    /\ pc = "loading"
    /\ Len(events) < MaxOptional
    /\ events' = Append(events, e)
    /\ UNCHANGED <<aside, threshold, issues, metrics, health, pc, open, lost>>

NextOptional ==
    \/ \E e \in OptionalEvents : LoadOptional(e)
    \/ RunAudit

SpecOptional == InitCommon /\ [][NextOptional]_vars

\* one check is called on the auditor, whatever ran before it
RunPass(p) ==
    /\ pc \in {"loading", "auditing"}
    /\ Len(events) <= MaxOrdered
    /\ \A k \in 1..Len(ran) : ran[k] # p
    /\ issues' = issues \o Pass(p, events)
    /\ ran' = Append(ran, p)
    /\ pc' = "auditing"
    /\ UNCHANGED <<events, threshold, metrics, health, open, lost,
                   compared, reading, indexed, swept, oscillation_threshold,
                   results, strict, watched, polled>>

NextOrder ==
    \/ \E e \in AuditedEvents : LoadAudited(e)
    \/ \E k \in 1..Len(Passes) : RunPass(Passes[k])

SpecOrder == InitCommon /\ [][NextOrder]_vars

-----------------------------------------------------------------------------
(* The thresholds as configuration: main() passes --threshold to            *)
(* IntermittencyAuditor(threshold); nothing takes a change-rate threshold.  *)

\* the change-rate thresholds a configuration can hold
ChangeRates == {<<1, 5>>, <<2, 5>>, <<3, 4>>}

\* the configuration is read before the traces are loaded
Configure(error_rate, change_rate) ==
    /\ pc = "loading"
    /\ events = <<>>
    /\ threshold' = error_rate
    /\ oscillation_threshold' = change_rate
    /\ UNCHANGED <<events, issues, metrics, health, pc, open, lost,
                   compared, reading, indexed, swept, results, ran, strict,
                   watched, polled>>

LoadConfigured(e) ==
    /\ pc = "loading"
    /\ Len(events) < MaxConfigured
    /\ events' = Append(events, e)
    /\ UNCHANGED <<aside, threshold, issues, metrics, health, pc, open, lost>>

NextConfigured ==
    \/ \E error_rate \in Thresholds, change_rate \in ChangeRates :
         Configure(error_rate, change_rate)
    \/ \E e \in EditOutcomes : LoadConfigured(e)
    \/ AuditOscillatingErrors
    \/ AuditToolIntermittency

SpecConfigured == InitCommon /\ [][NextConfigured]_vars

-----------------------------------------------------------------------------
(* ComplianceAuditor.run_audit.  The events of the audited trace are        *)
(* PostToolUse events of a known tool with ISO-8601 timestamps and standard *)
(* statuses, loaded from one file of valid lines; their event_id is a text, *)
(* the empty text, null or absent, and an error carries no error_message.   *)

\* REQUIRED_FIELDS["PostToolUse"]
REQUIRED_FIELDS ==
    <<"event_id", "session_id", "timestamp", "event_type", "tool_name", "status">>

VALID_EVENT_TYPES ==
    {"SessionStart", "SessionEnd", "PreToolUse", "PostToolUse", "Stop",
     "SubagentStop", "UserPromptSubmit", "PreCompact", "Notification"}

VALID_STATUSES ==
    {"pending", "success", "error", "started", "ended", "completed", "unknown",
     "submitted", "compacting", "notified"}

\* "if not value": an absent key, null and the empty text are all false
Falsy(value) == value \in {Absent, Null, ""}

\* the issues of one event, in the order audit_schema_compliance appends them
SchemaIssues(event, line) ==
    IF Get(event, "event_type", "unknown") \notin VALID_EVENT_TYPES
    THEN <<[type |-> "invalid_event_type", severity |-> "warning", line |-> line]>>
    ELSE (LET missing == SelectSeq(REQUIRED_FIELDS, LAMBDA f : event[f] = Absent)
          IN  IF missing # <<>>
              THEN <<[type |-> "missing_required_fields", severity |-> "warning",
                      missing_fields |-> missing, line |-> line]>>
              ELSE <<>>)
         \o (IF ~Falsy(event.status) /\ event.status \notin VALID_STATUSES
             THEN <<[type |-> "invalid_status_value", severity |-> "info",
                     line |-> line]>>
             ELSE <<>>)

RECURSIVE audit_schema_compliance(_)
audit_schema_compliance(s) ==
    IF s = <<>> THEN <<>>
    ELSE audit_schema_compliance(SubSeq(s, 1, Len(s) - 1))
         \o SchemaIssues(s[Len(s)], Len(s))

\* every timestamp of the model stands for a text that matches the pattern
audit_timestamp_format(s) == <<>>

\* uuid_pattern.match(event_id): no event_id of the model is a UUID
IsUuid(event_id) == FALSE

\* the duplicate check flags an id once, however often it comes again
EventIdIssues_OncePerId(s, k, st) ==
    LET event_id == s[k].event_id
    IN  IF Falsy(event_id) THEN <<>>
        ELSE (IF st /\ ~IsUuid(event_id)
              THEN <<[type |-> "non_uuid_event_id", severity |-> "info",
                      event_id |-> event_id]>>
              ELSE <<>>)
             \o (IF Cardinality({i \in 1..(k - 1) : s[i].event_id = event_id}) = 1
                 THEN <<[type |-> "duplicate_event_id", severity |-> "warning",
                         event_id |-> event_id]>>
                 ELSE <<>>)

\* the issues of the k-th event: seen_ids holds the ids of the events before
\* it that are not false
EventIdIssues(s, k, st) ==
    LET event_id == s[k].event_id
    IN  IF Falsy(event_id) THEN <<>>
        ELSE (IF st /\ ~IsUuid(event_id)
              THEN <<[type |-> "non_uuid_event_id", severity |-> "info",
                      event_id |-> event_id]>>
              ELSE <<>>)
             \o (IF \E i \in 1..(k - 1) : s[i].event_id = event_id
                 THEN <<[type |-> "duplicate_event_id", severity |-> "warning",
                         event_id |-> event_id]>>
                 ELSE <<>>)

RECURSIVE EventIdIssuesTo(_, _, _)
EventIdIssuesTo(s, k, st) ==
    IF k = 0 THEN <<>>
    ELSE EventIdIssuesTo(s, k - 1, st) \o EventIdIssues(s, k, st)

audit_event_id_format(s, st) == EventIdIssuesTo(s, Len(s), st)

\* an error of the model has no error_message: empty_error_message, and
\* nothing to group
RECURSIVE audit_error_message_patterns(_)
audit_error_message_patterns(s) ==
    IF s = <<>> THEN <<>>
    ELSE audit_error_message_patterns(SubSeq(s, 1, Len(s) - 1))
         \o (IF s[Len(s)].status = "error"
             THEN <<[type |-> "empty_error_message", severity |-> "warning",
                     event_type |-> s[Len(s)].event_type,
                     tool |-> s[Len(s)].tool_name]>>
             ELSE <<>>)

\* every tool of the model is a known tool
audit_tool_name_consistency(s) == <<>>

\* sessions.json as the compliance audit reads it; the entries of an object
\* are looked at in strict mode only, and a list is no entry
audit_sessions_index(f) ==
    IF f.kind = "absent"
    THEN <<[type |-> "missing_sessions_index", severity |-> "warning"]>>
    ELSE IF f.kind = "empty"
    THEN <<[type |-> "empty_sessions_index", severity |-> "warning"]>>
    ELSE IF f.kind = "invalid"
    THEN <<[type |-> "invalid_sessions_index", severity |-> "critical"]>>
    ELSE IF f.kind # "dict"
    THEN <<[type |-> "invalid_sessions_index_structure", severity |-> "warning"]>>
    ELSE <<>>

ComplianceEvent(event_id, status) ==
    [event_type |-> "PostToolUse", tool_name |-> "Bash", session_id |-> "s1",
     timestamp |-> <<0, 0>>, status |-> status, event_id |-> event_id]

CompliedEvents ==
    {ComplianceEvent(event_id, "success") : event_id \in {"a", "b", "", Null, Absent}}
    \cup {ComplianceEvent("a", "error")}

\* ComplianceAuditor(strict=True)
SetStrict ==
    /\ pc = "loading"
    /\ events = <<>>
    /\ ~strict
    /\ strict' = TRUE
    /\ UNCHANGED <<events, threshold, issues, metrics, health, pc, open, lost,
                   compared, reading, indexed, swept, oscillation_threshold,
                   results, ran, watched, polled>>

LoadComplied(e) ==
    /\ pc = "loading"
    /\ Len(events) < MaxComplied
    /\ events' = Append(events, e)
    /\ UNCHANGED <<aside, threshold, issues, metrics, health, pc, open, lost>>

\* ComplianceAuditor.run_audit
RunCompliance ==
    /\ pc \in {"loading", "returned"}
    /\ Len(results) < MaxRuns
    /\ LET found == issues \o audit_schema_compliance(events)
                           \o audit_timestamp_format(events)
                           \o audit_event_id_format(events, strict)
                           \o audit_error_message_patterns(events)
                           \o audit_tool_name_consistency(events)
                           \o audit_sessions_index(sessions_file)
       IN  /\ issues' = found
           /\ results' =
                Append(results,
                       [audit_type |-> "compliance", status |-> "completed",
                        strict_mode |-> strict,
                        total_events_analyzed |-> Len(events),
                        summary |-> [total_issues |-> Len(found),
                                     critical |-> Len(OfSeverity(found, "critical")),
                                     warning |-> Len(OfSeverity(found, "warning")),
                                     info |-> Len(OfSeverity(found, "info"))],
                        issues |-> found])
    /\ pc' = "returned"
    /\ UNCHANGED <<events, threshold, metrics, health, open, lost,
                   compared, reading, indexed, swept, oscillation_threshold,
                   ran, strict, watched, polled>>

NextCompliance ==
    \/ SetStrict
    \/ \E e \in CompliedEvents : LoadComplied(e)
    \/ RunCompliance

SpecCompliance == InitCommon /\ [][NextCompliance]_vars

-----------------------------------------------------------------------------
(* TraceWatcher: the polling loop beside a live session that appends to the *)
(* trace file.  Sizes and offsets are counted in pieces of text.  A poll is *)
(* two steps, the stat of _check_files and the read of _read_new_events,    *)
(* and the session's appends fall before, between and after them.           *)

\* _check_files, for the one trace file: trace_file.stat().st_size, compared
\* with self._last_sizes.get(str(trace_file), 0); a file that has grown has
\* its size recorded, and _read_new_events(trace_file, last_size) begins
CheckFiles ==
    /\ pc = "writing"
    /\ current_size' = Len(file)
    /\ IF Len(file) > last_sizes
       THEN /\ last_sizes' = Len(file)
            /\ pos' = last_sizes
            /\ pc' = "reading"
       ELSE UNCHANGED <<last_sizes, pos, pc>>
    /\ UNCHANGED <<events, threshold, issues, metrics, health, open, lost,
                   compared, file, partial, raised, loader, indexed,
                   swept, audited, delivered, polled>>

\* what _read_new_events passes to the callback: f.seek(offset), then every
\* line up to the end of the file as it is at the read, the text after the
\* last newline being the last line; a line that is no JSON is passed over
NewEvents(text, offset) ==
    LET st == [events |-> <<>>, raised |-> "none"]
        read == LoadData("TraceWatcher._read_new_events",
                         SubSeq(text, offset + 1, Len(text)), <<>>, st)
    IN  LoadLine("TraceWatcher._read_new_events", read.partial, read.st).events

\* _read_new_events(trace_file, offset)
ReadNewEvents ==
    /\ pc = "reading"
    /\ delivered' = delivered \o NewEvents(file, pos)
    /\ pc' = "writing"
    /\ UNCHANGED <<events, threshold, issues, metrics, health, open, lost,
                   compared, reading, indexed,
                   swept, audited, last_sizes, current_size, polled>>

NextWatcher ==
    \/ AppendPiece
    \/ CheckFiles
    \/ ReadNewEvents

SpecWatcher == InitFiles /\ [][NextWatcher]_vars

-----------------------------------------------------------------------------
(* DashboardAPI.get_events_since, called again and again by a client while  *)
(* the trace grows.  Every call loads the trace anew (_get_metrics); events *)
(* is what it loads.  An event is its event_id and at, its place in the     *)
(* file.                                                                    *)

\* the event_ids the session writes; PolledIds holds an id written twice
PolledIds == {"a", "b"}

\* an id that is in no event of the trace: the last event of an earlier
\* session's trace
ForeignId == "z"

\* metrics.events[-10:]
LastTen(s) == SubSeq(s, IF Len(s) > 10 THEN Len(s) - 9 ELSE 1, Len(s))

\* the loop of get_events_since: the events after the first whose event_id is
\* last_event_id
RECURSIVE EventsAfter(_, _, _, _)
EventsAfter(s, k, id, found) ==
    IF k > Len(s) THEN <<>>
    ELSE IF found THEN <<s[k]>> \o EventsAfter(s, k + 1, id, TRUE)
    ELSE EventsAfter(s, k + 1, id, s[k].event_id = id)

\* get_events_since(session_id, last_event_id)
get_events_since(s, id) ==
    IF Falsy(id) THEN LastTen(s) ELSE EventsAfter(s, 1, id, FALSE)

\* the session appends an event to the trace
AppendEvent(event_id) ==
    /\ pc \in {"loading", "polled"}
    /\ Len(events) < MaxPolled
    /\ events' = Append(events, [event_id |-> event_id, at |-> Len(events) + 1])
    /\ pc' = "loading"
    /\ UNCHANGED <<threshold, issues, metrics, health, open, lost, aside>>

\* a client that has been given nothing of this trace begins with the id of
\* the last event it was given of another
Connect ==
    /\ pc = "loading"
    /\ received = <<>>
    /\ last_event_id = Null
    /\ last_event_id' = ForeignId
    /\ UNCHANGED <<events, threshold, issues, metrics, health, pc, open, lost,
                   compared, reading, indexed,
                   swept, audited, watched, received>>

\* GET /api/events?since=<last_event_id>; the client keeps the event_id of
\* the last event of the answer
Poll ==
    /\ pc \in {"loading", "polled"}
    /\ LET new == get_events_since(events, last_event_id)
       IN  /\ Len(received) + Len(new) <= MaxReceived
           /\ received' = received \o new
           /\ last_event_id' = IF new = <<>> THEN last_event_id
                               ELSE new[Len(new)].event_id
    /\ pc' = "polled"
    /\ UNCHANGED <<events, threshold, issues, metrics, health, open, lost,
                   compared, reading, indexed,
                   swept, audited, watched>>

NextPolling ==
    \/ \E event_id \in PolledIds : AppendEvent(event_id)
    \/ Connect
    \/ Poll

SpecPolling == InitCommon /\ [][NextPolling]_vars

-----------------------------------------------------------------------------
(* Claims about the pairing sweep (SpecPairing). *)

ToolEvents(s, tool) == SelectSeq(s, LAMBDA e : e.tool_name = tool)

\* Pre, Post, Pre, Post, ...: every call of the tool is logged whole
AlternatingPairs(s) ==
    /\ Len(s) % 2 = 0
    /\ \A i \in 1..Len(s) :
         s[i].event_type = (IF i % 2 = 1 THEN "PreToolUse" ELSE "PostToolUse")

UnpairedIssues == SelectSeq(issues, LAMBDA i : i.type = "unpaired_pretooluse")

\* C1 (as claimed): a session of alternating PreToolUse/PostToolUse pairs of one
\* tool from which a single PostToolUse is missing yields exactly one
\* unpaired_pretooluse Issue, whatever the timestamps.
C1_OneLostPostOneIssue ==
    (/\ pc = "unpaired"
     /\ lost
     /\ open = {}
     /\ \A i \in 1..Len(events) : events[i].tool_name = "Write")
    => Len(UnpairedIssues) = 1

\* C2: when every tool's events form alternating PreToolUse/PostToolUse pairs in
\* timestamp order, pairs of different tools interleaving freely, the sweep
\* reports no unpaired_pretooluse Issue.
C2_AlternatingPairsNoIssue ==
    (/\ pc = "unpaired"
     /\ \A tool \in Tools : AlternatingPairs(ToolEvents(events, tool)))
    => UnpairedIssues = <<>>

\* C2 witness: two tools, their pairs interleaved, one pair inside a second and
\* one pair ending in a later second than it began, swept.
C2_Witness ==
    /\ pc = "unpaired"
    /\ \A tool \in Tools : AlternatingPairs(ToolEvents(events, tool))
    /\ Len(ToolEvents(events, "Write")) >= 2
    /\ Len(ToolEvents(events, "Bash")) >= 2
    /\ \E i, j, k \in 1..Len(events) :
         /\ i < j /\ j < k
         /\ events[i].event_type = "PreToolUse" /\ events[i].tool_name = "Write"
         /\ events[j].event_type = "PreToolUse" /\ events[j].tool_name = "Bash"
         /\ events[k].event_type = "PostToolUse" /\ events[k].tool_name = "Write"
         /\ Trunc19(events[i].timestamp) # Trunc19(events[k].timestamp)
    /\ \E i \in 1..Len(events) - 1 :
         /\ events[i].event_type = "PreToolUse"
         /\ events[i + 1].event_type = "PostToolUse"
         /\ events[i].tool_name = events[i + 1].tool_name
         /\ Trunc19(events[i].timestamp) = Trunc19(events[i + 1].timestamp)
         /\ events[i].timestamp # events[i + 1].timestamp

\* C3 (as claimed): every PreToolUse of tool X at timestamp T with no later
\* PostToolUse of X in its session is reported by an unpaired_pretooluse Issue
\* carrying X, the session and T.
C3_EveryOrphanReported ==
    pc = "unpaired" =>
      \A i \in 1..Len(events) :
        (/\ events[i].event_type = "PreToolUse"
         /\ ~ \E j \in (i + 1)..Len(events) :
                /\ events[j].event_type = "PostToolUse"
                /\ events[j].tool_name = events[i].tool_name
                /\ events[j].session_id = events[i].session_id)
        => \E k \in 1..Len(UnpairedIssues) :
             /\ UnpairedIssues[k].tool = events[i].tool_name
             /\ UnpairedIssues[k].session_id = events[i].session_id
             /\ UnpairedIssues[k].timestamp = events[i].timestamp

-----------------------------------------------------------------------------
(* Claims about the per-tool aggregates (SpecIntermittency). *)

ToolNames == {"Bash", "Read"}

\* the PostToolUse events of a tool, and those among them with status "error"
PostsOf(tool) ==
    {i \in 1..Len(events) :
        events[i].event_type = "PostToolUse" /\ events[i].tool_name = tool}

ErrorsOf(tool) == {i \in PostsOf(tool) : events[i].status = "error"}

IntermittentIssues(tool) ==
    {k \in 1..Len(issues) :
        issues[k].type = "intermittent_tool_failure" /\ issues[k].tool = tool}

\* C4: an intermittent_tool_failure Issue is emitted for tool X if and only if X
\* has at least 2 PostToolUse events and threshold <= errors/total < 1.0, and at
\* most one such Issue is emitted per tool.
C4_IntermittentIff ==
    pc = "intermittency" =>
      \A tool \in ToolNames :
        LET total == Cardinality(PostsOf(tool))
            errors == Cardinality(ErrorsOf(tool))
        IN  /\ Cardinality(IntermittentIssues(tool)) <= 1
            /\ IntermittentIssues(tool) # {}
                 <=> (/\ total >= 2
                      /\ threshold[1] * total <= errors * threshold[2]
                      /\ errors < total)

\* C4 witness: one tool flagged and another, at error rate 1.0, not flagged.
C4_Witness ==
    /\ pc = "intermittency"
    /\ threshold = <<1, 2>>
    /\ Cardinality(PostsOf("Bash")) = 2
    /\ Cardinality(ErrorsOf("Bash")) = 1
    /\ IntermittentIssues("Bash") # {}
    /\ Cardinality(PostsOf("Read")) >= 1
    /\ ErrorsOf("Read") = PostsOf("Read")
    /\ IntermittentIssues("Read") = {}

\* C5 (as claimed): no intermittent_tool_failure Issue is emitted for a tool whose
\* error rate is exactly 0 or exactly 1.0, whatever the threshold.
C5_NeverAtZeroOrOne ==
    pc = "intermittency" =>
      \A tool \in ToolNames :
        IntermittentIssues(tool) # {}
          => /\ ErrorsOf(tool) # {}
             /\ ErrorsOf(tool) # PostsOf(tool)

\* C6: an intermittent_tool_failure Issue is critical if the tool's error rate
\* is >= 0.3 and a warning otherwise; 10 calls with 3 errors, at a threshold of
\* at most 0.3, yield one critical Issue reporting 30.0%.
C6_SeverityByRate ==
    pc = "intermittency" =>
      \A tool \in ToolNames :
        LET total == Cardinality(PostsOf(tool))
            errors == Cardinality(ErrorsOf(tool))
        IN  /\ \A k \in IntermittentIssues(tool) :
                 issues[k].severity =
                    (IF 10 * errors >= 3 * total THEN "critical" ELSE "warning")
            /\ (total = 10 /\ errors = 3 /\ 10 * threshold[1] <= 3 * threshold[2])
                 => /\ Cardinality(IntermittentIssues(tool)) = 1
                    /\ \A k \in IntermittentIssues(tool) :
                         /\ issues[k].severity = "critical"
                         /\ issues[k].error_rate = 300

\* C6 witness: Bash called 10 times, 3 errors between successes, audited at the
\* default threshold, and flagged critical.
C6_Witness ==
    /\ pc = "intermittency"
    /\ threshold = <<1, 10>>
    /\ Cardinality(PostsOf("Bash")) = 10
    /\ ErrorsOf("Bash") = {2, 5, 8}
    /\ \E k \in IntermittentIssues("Bash") : issues[k].severity = "critical"

\* C7 (as claimed): in the tool_stats of audit_tool_intermittency and in the
\* results of get_tool_metrics, every tool with calls >= 2 has
\* success + errors == calls and 0 <= errors <= calls, whatever the statuses.
C7_SuccessPlusErrorsIsCalls ==
    /\ pc = "tool_metrics" =>
         \A k \in 1..Len(metrics) :
           metrics[k].calls >= 2
             => /\ metrics[k].success + metrics[k].errors = metrics[k].calls
                /\ 0 <= metrics[k].errors
                /\ metrics[k].errors <= metrics[k].calls
    /\ pc = "intermittency" =>
         \A tool \in ToolNames :
           LET stats == ToolStats(events, tool)
               calls == Cardinality(PostsOf(tool))
           IN  calls >= 2
                 => /\ stats.success + stats.error = calls
                    /\ 0 <= stats.error
                    /\ stats.error <= calls

-----------------------------------------------------------------------------
(* Claims about the oscillation pass (SpecOscillation). *)

\* the PostToolUse events of a (session, tool) pair
Observations(sid, tool) ==
    {i \in 1..Len(events) :
        /\ events[i].event_type = "PostToolUse"
        /\ events[i].session_id = sid
        /\ events[i].tool_name = tool}

\* i comes before j in timestamp order, file order deciding between equals
Before(i, j) ==
    \/ events[i].timestamp[1] < events[j].timestamp[1]
    \/ /\ events[i].timestamp[1] = events[j].timestamp[1]
       /\ events[i].timestamp[2] < events[j].timestamp[2]
    \/ events[i].timestamp = events[j].timestamp /\ i < j

IsError(i) == events[i].status = "error"

\* the adjacent positions of the pair's ordered sequence whose outcomes differ
Flips(sid, tool) ==
    {p \in Observations(sid, tool) \X Observations(sid, tool) :
        /\ Before(p[1], p[2])
        /\ ~ \E k \in Observations(sid, tool) : Before(p[1], k) /\ Before(k, p[2])
        /\ IsError(p[1]) # IsError(p[2])}

OscillationIssues(sid, tool) ==
    {k \in 1..Len(issues) :
        /\ issues[k].type = "oscillating_errors"
        /\ issues[k].session_id = sid
        /\ issues[k].tool = tool}

Outcomes == [i \in 1..Len(events) |-> Outcome(events[i])]

\* the trace is the observations of one pair, already in timestamp order
OneSequence == \A i \in 1..Len(events) : events[i] \in EditOutcomes

\* C8: an oscillating_errors Issue, a warning, is emitted for a (session, tool)
\* pair if and only if the pair has at least 4 PostToolUse observations and its
\* timestamp-ordered outcome sequence has changes >= 3 and
\* changes / (length - 1) > 0.4; success,error,success,error,success is flagged
\* and a sequence of length 9 with exactly 3 changes is not.
C8_OscillationIff ==
    pc = "oscillation" =>
      /\ \A sid \in {"s1", "s2"} :
           LET n == Cardinality(Observations(sid, "Edit"))
               changes == Cardinality(Flips(sid, "Edit"))
           IN  /\ OscillationIssues(sid, "Edit") # {}
                    <=> (n >= 4 /\ changes >= 3 /\ 5 * changes > 2 * (n - 1))
               /\ \A k \in OscillationIssues(sid, "Edit") :
                    issues[k].severity = "warning"
      /\ (OneSequence
            /\ Outcomes = <<"success", "error", "success", "error", "success">>)
           => OscillationIssues("s1", "Edit") # {}
      /\ (OneSequence /\ Len(events) = 9 /\ Changes(Outcomes) = 3)
           => OscillationIssues("s1", "Edit") = {}

\* C8 witness: four observations of a pair whose file order shows one change
\* and whose timestamp order shows three, audited and flagged.
C8_Witness ==
    /\ pc = "oscillation"
    /\ Cardinality(Observations("s1", "Edit")) = 4
    /\ Changes(Outcomes) = 1
    /\ Cardinality(Flips("s1", "Edit")) = 3
    /\ OscillationIssues("s1", "Edit") # {}

-----------------------------------------------------------------------------
(* Claims about the session stability pass (SpecStability). *)

EventsOfType(sid, types) ==
    {i \in 1..Len(events) :
        events[i].session_id = sid /\ events[i].event_type \in types}

InstabilityIssues(sid) ==
    {k \in 1..Len(issues) :
        issues[k].type = "session_instability" /\ issues[k].session_id = sid}

\* C9 (as claimed): a session is flagged session_instability, severity info,
\* exactly when its SessionStart events outnumber by more than one its end
\* events, SessionEnd and Stop both counting as ends.
C9_UnstableIffStartsExceedEnds ==
    pc = "stability" =>
      \A sid \in {"s1", "s2"} :
        /\ InstabilityIssues(sid) # {}
             <=> Cardinality(EventsOfType(sid, {"SessionStart"}))
                   > Cardinality(EventsOfType(sid, {"SessionEnd", "Stop"})) + 1
        /\ \A k \in InstabilityIssues(sid) : issues[k].severity = "info"

-----------------------------------------------------------------------------
(* Claims about the health score (SpecHealth). *)

-----------------------------------------------------------------------------
(* Claims about two scored traces (SpecCompared). *)

\* total_errors / total_calls, 0 when there are no calls
ErrorRate(s) ==
    LET stats == compute_statistics(s)
    IN  IF stats.total_calls > 0
        THEN <<stats.total_errors, stats.total_calls>> ELSE <<0, 1>>

\* the inputs of the score other than the error rate
SameOtherInputs(s, t) ==
    /\ Unreliable(get_tool_metrics(s)) = Unreliable(get_tool_metrics(t))
    /\ \A type \in {"SessionStart", "SessionEnd", "Stop"} :
         type \in EventTypes(s) <=> type \in EventTypes(t)
    /\ CountOfType(s, "PreToolUse") = CountOfType(t, "PreToolUse")
    /\ CountOfType(s, "PostToolUse") = CountOfType(t, "PostToolUse")

\* C11: of two traces that agree on the number of unreliable tools, on the
\* presence of SessionStart, SessionEnd and Stop and on the PreToolUse and
\* PostToolUse counts, the one with the higher total_errors / total_calls never
\* gets the strictly higher health score.
C11_ScoreFallsWithErrorRate ==
    (/\ pc = "scored"
     /\ SameOtherInputs(events, events2)
     /\ RatioLess(ErrorRate(events2), ErrorRate(events)))
    => RatioLeq(health, health2)

\* C11 witness: two scored traces that differ in the error rate only, by their
\* numbers of calls and of errors, the worse one scored strictly lower.
C11_Witness ==
    /\ pc = "scored"
    /\ SameOtherInputs(events, events2)
    /\ RatioLess(ErrorRate(events2), ErrorRate(events))
    /\ compute_statistics(events).total_calls
         # compute_statistics(events2).total_calls
    /\ ErrorRate(events2)[1] > 0
    /\ CountOfType(events, "PreToolUse") > 0
    /\ RatioLess(health, health2)


-----------------------------------------------------------------------------
(* Claims about the score of a long trace (SpecLongHealth). *)

PostCalls(s, tool) ==
    Cardinality({i \in 1..Len(s) :
        s[i].event_type = "PostToolUse" /\ s[i].tool_name = tool})

PostErrors(s, tool) ==
    Cardinality({i \in 1..Len(s) :
        /\ s[i].event_type = "PostToolUse" /\ s[i].tool_name = tool
        /\ s[i].status = "error"})

CalledTools(s) ==
    {s[i].tool_name : i \in {j \in 1..Len(s) :
        s[j].event_type = "PostToolUse" /\ s[j].tool_name # Absent}}

RECURSIVE SumOver(_, _, _)
SumOver(Count(_, _), s, tools) ==
    IF tools = {} THEN 0
    ELSE LET tool == CHOOSE t \in tools : TRUE
         IN  Count(s, tool) + SumOver(Count, s, tools \ {tool})

\* 100 - 40*E - min(10*U, 30) - S1 - S2 - P, in exact arithmetic
ReferenceRaw(s) ==
    LET calls == SumOver(PostCalls, s, CalledTools(s))
        errors == SumOver(PostErrors, s, CalledTools(s))
        E == IF calls > 0 THEN <<errors, calls>> ELSE <<0, 1>>
        U == Cardinality({tool \in CalledTools(s) :
                 5 * PostErrors(s, tool) > PostCalls(s, tool)})
        S1 == IF CountOfType(s, "SessionStart") = 0 THEN 10 ELSE 0
        S2 == IF CountOfType(s, "SessionEnd") = 0
                 /\ CountOfType(s, "Stop") = 0 THEN 10 ELSE 0
        pre_count == CountOfType(s, "PreToolUse")
        post_count == CountOfType(s, "PostToolUse")
        P == IF pre_count > 0
             THEN IF post_count >= pre_count THEN <<0, 1>>
                  ELSE <<10 * (pre_count - post_count), pre_count>>
             ELSE <<0, 1>>
        fixed == 100 - (IF 10 * U < 30 THEN 10 * U ELSE 30) - S1 - S2
    IN  RatioSub(RatioSub(Whole(fixed), <<40 * E[1], E[2]>>), P)

\* max(0, min(100, trunc(.)))
ReferenceScore(s) ==
    LET raw == ReferenceRaw(s)
        cut == IF raw[1] >= 0 THEN raw[1] \div raw[2]
               ELSE -((-raw[1]) \div raw[2])
    IN  Whole(IF cut < 0 THEN 0 ELSE IF cut > 100 THEN 100 ELSE cut)

\* C12 (as claimed): for every event collection calculate_health_score equals
\* max(0, min(100, trunc(100 - 40*E - min(10*U, 30) - S1 - S2 - P))), E the
\* PostToolUse errors over the PostToolUse calls (0 without calls), U the number
\* of tools with errors/calls strictly above 0.2, S1 = 10 iff there is no
\* SessionStart, S2 = 10 iff there is neither a SessionEnd nor a Stop, and
\* P = 10 * (1 - min(post_count / pre_count, 1)) when pre_count > 0, else 0.
C12_EqualsReferenceFormula ==
    pc = "health" => health = ReferenceScore(events)


-----------------------------------------------------------------------------
(* Claims about the trace diff (SpecDiff). *)

\* the positions of the events of a type and a tool
EventsOf(s, type, tool) ==
    {i \in 1..Len(s) : s[i].event_type = type /\ s[i].tool_name = tool}

FailuresOf(s, type, tool) ==
    {i \in EventsOf(s, type, tool) : s[i].status = "error"}

DiffTypes == {e.event_type : e \in DiffEvents}
DiffTools == {e.tool_name : e \in DiffEvents} \ {Absent}

\* the tool keys of a trace: <<event_type, tool_name>> of its events of a tool
KeysOf(s) ==
    {key \in DiffTypes \X DiffTools : EventsOf(s, key[1], key[2]) # {}}

\* the tools with an error event in a trace
FailingTools(s) ==
    {tool \in DiffTools :
        \E type \in DiffTypes : FailuresOf(s, type, tool) # {}}

\* the tools of the error_changes entries of a type
ErrorChangeTools(d, type) ==
    UNION {d.error_changes[i].tools :
             i \in {j \in 1..Len(d.error_changes) :
                      d.error_changes[j].type = type}}

ErrorsGrew(key) ==
    /\ key \in KeysOf(events) \cap KeysOf(events2)
    /\ Cardinality(FailuresOf(events2, key[1], key[2]))
         > Cardinality(FailuresOf(events, key[1], key[2]))

\* C13: has_regressions is true if and only if some tool has an error event in
\* the second trace and none in the first (new_errors is not empty) or some key
\* of both traces has strictly more errors in the second; changed call counts,
\* added or removed keys, resolved errors and fewer errors alone never set it.
C13_RegressionIff ==
    pc = "compared" =>
      /\ ErrorChangeTools(diff, "new_errors")
           = FailingTools(events2) \ FailingTools(events)
      /\ diff.summary.has_regressions
           <=> \/ FailingTools(events2) \ FailingTools(events) # {}
               \/ \E key \in DiffTypes \X DiffTools : ErrorsGrew(key)

\* C13 witness: the second trace has more errors under a key of both traces and
\* no tool fails in it that did not fail in the first; a regression is reported.
C13_Witness ==
    /\ pc = "compared"
    /\ FailingTools(events2) \ FailingTools(events) = {}
    /\ \E key \in DiffTypes \X DiffTools : ErrorsGrew(key)
    /\ diff.added_tools # {}
    /\ diff.summary.has_regressions

\* C14: added_tools is exactly the keys of the second trace only, removed_tools
\* exactly the keys of the first only, changed_tools has exactly one entry for
\* each key of both traces whose count or errors differ, with a from/to pair
\* (first trace, second trace) for every counter that differs and for none that
\* is equal; the three key sets are pairwise disjoint.
C14_AddedRemovedChanged ==
    pc = "compared" =>
      LET changed == {c.tool : c \in diff.changed_tools}
          Count(s, key) == Cardinality(EventsOf(s, key[1], key[2]))
          Errors(s, key) == Cardinality(FailuresOf(s, key[1], key[2]))
      IN  /\ diff.added_tools = KeysOf(events2) \ KeysOf(events)
          /\ diff.removed_tools = KeysOf(events) \ KeysOf(events2)
          /\ changed = {key \in KeysOf(events) \cap KeysOf(events2) :
                          \/ Count(events, key) # Count(events2, key)
                          \/ Errors(events, key) # Errors(events2, key)}
          /\ Cardinality(diff.changed_tools) = Cardinality(changed)
          /\ \A c \in diff.changed_tools :
               /\ "count" \in DOMAIN c.changes
                    <=> Count(events, c.tool) # Count(events2, c.tool)
               /\ "count" \in DOMAIN c.changes
                    => c.changes["count"] = [from |-> Count(events, c.tool),
                                             to |-> Count(events2, c.tool)]
               /\ "errors" \in DOMAIN c.changes
                    <=> Errors(events, c.tool) # Errors(events2, c.tool)
               /\ "errors" \in DOMAIN c.changes
                    => c.changes["errors"] = [from |-> Errors(events, c.tool),
                                              to |-> Errors(events2, c.tool)]
               /\ DOMAIN c.changes \subseteq {"count", "errors"}
          /\ diff.added_tools \cap diff.removed_tools = {}
          /\ diff.added_tools \cap changed = {}
          /\ diff.removed_tools \cap changed = {}

\* C14 witness: a diff with an added key, a removed key and a changed key whose
\* count differs and whose errors are equal.
C14_Witness ==
    /\ pc = "compared"
    /\ diff.added_tools # {}
    /\ diff.removed_tools # {}
    /\ \E c \in diff.changed_tools : DOMAIN c.changes = {"count"}

\* C15: for a tool X with the same number of PostToolUse events in both traces
\* and more errors in the second, the diff of the two loaded and aggregated
\* traces has a changed_tools entry of X, under its key PostToolUse:X, whose
\* changes are exactly errors: {from: errors in trace 1, to: errors in trace 2},
\* and has_regressions is true.
C15_SameCallsMoreErrors ==
    pc = "compared" =>
      \A X \in DiffTools :
        (/\ Cardinality(EventsOf(events, "PostToolUse", X))
              = Cardinality(EventsOf(events2, "PostToolUse", X))
         /\ Cardinality(FailuresOf(events2, "PostToolUse", X))
              > Cardinality(FailuresOf(events, "PostToolUse", X)))
        => /\ \E c \in diff.changed_tools :
                /\ c.tool = <<"PostToolUse", X>>
                /\ DOMAIN c.changes = {"errors"}
                /\ c.changes["errors"]
                     = [from |-> Cardinality(FailuresOf(events, "PostToolUse", X)),
                        to |-> Cardinality(FailuresOf(events2, "PostToolUse", X))]
           /\ diff.summary.has_regressions

\* C15 witness: Read called twice in each trace, never failing in the first and
\* failing once in the second, compared.
C15_Witness ==
    /\ pc = "compared"
    /\ Cardinality(EventsOf(events, "PostToolUse", "Read")) = 2
    /\ Cardinality(EventsOf(events2, "PostToolUse", "Read")) = 2
    /\ FailuresOf(events, "PostToolUse", "Read") = {}
    /\ Cardinality(FailuresOf(events2, "PostToolUse", "Read")) = 1
    /\ \E c \in diff.changed_tools :
         /\ c.tool = <<"PostToolUse", "Read">>
         /\ c.changes["errors"] = [from |-> 0, to |-> 1]
    /\ diff.summary.has_regressions

\* the diff of the same two traces taken the other way round
Reversed == compare_traces(analyze_trace(events2), analyze_trace(events))

\* C16: the added_tools of compare_traces(A, B) are, as a set, the removed_tools
\* of compare_traces(B, A) and the other way round; the new_errors tools of
\* compare_traces(A, B) are the resolved_errors tools of compare_traces(B, A)
\* and the other way round.
C16_AntiSymmetric ==
    pc = "compared" =>
      LET reversed == Reversed
      IN  /\ diff.added_tools = reversed.removed_tools
          /\ diff.removed_tools = reversed.added_tools
          /\ ErrorChangeTools(diff, "new_errors")
               = ErrorChangeTools(reversed, "resolved_errors")
          /\ ErrorChangeTools(diff, "resolved_errors")
               = ErrorChangeTools(reversed, "new_errors")

\* C16 witness: a diff with an added key, a new error of a tool and another tool
\* that fails in both traces.
C16_Witness ==
    /\ pc = "compared"
    /\ diff.added_tools # {}
    /\ ErrorChangeTools(diff, "new_errors") # {}
    /\ FailingTools(events) \cap FailingTools(events2) # {}
    /\ Reversed.removed_tools = diff.added_tools
    /\ ErrorChangeTools(Reversed, "resolved_errors") # {}

\* s with its events at i and i + 1 exchanged
Swapped(s, i) ==
    [j \in 1..Len(s) |->
        IF j = i THEN s[i + 1] ELSE IF j = i + 1 THEN s[i] ELSE s[j]]

Verdict(d) ==
    <<d.summary.has_regressions, d.added_tools, d.removed_tools,
      d.changed_tools>>

\* C17: two traces with the events of the compared ones in another order have
\* the same per-key counts and error-producing tools, and get the same
\* has_regressions, added_tools, removed_tools and changed_tools; only
\* sequence_changes may differ.  Every order is reached from any other by
\* exchanging neighbours, and every trace of the bound is compared in some
\* state, so the property is stated for one exchange in either trace.
C17_VerdictIgnoresOrder ==
    pc = "compared" =>
      LET trace1 == analyze_trace(events)
          trace2 == analyze_trace(events2)
          verdict == Verdict(diff)
      IN  /\ \A i \in 1..(Len(events) - 1) :
               Verdict(compare_traces(analyze_trace(Swapped(events, i)),
                                      trace2)) = verdict
          /\ \A i \in 1..(Len(events2) - 1) :
               Verdict(compare_traces(trace1,
                                      analyze_trace(Swapped(events2, i))))
                 = verdict

\* C17 witness: two compared traces of the same tools in different orders, a
\* regression among them: sequence_changes reports the orders, and does not
\* once two neighbours of the second trace are exchanged.
C17_Witness ==
    /\ pc = "compared"
    /\ diff.summary.has_regressions
    /\ diff.changed_tools # {}
    /\ diff.sequence_changes # <<>>
    /\ \E i \in 1..(Len(events2) - 1) :
         compare_traces(analyze_trace(events),
                        analyze_trace(Swapped(events2, i))).sequence_changes
           = <<>>


-----------------------------------------------------------------------------
(* Claims about the loaders (SpecLoader, SpecAppend). *)

\* the numbers of the records of the file's lines, in file order
RECURSIVE RecordsOf(_)
RecordsOf(text) ==
    IF text = <<>> THEN <<>>
    ELSE IF Head(text).t = "head"
         THEN <<Head(text).id>> \o RecordsOf(Tail(text))
         ELSE RecordsOf(Tail(text))

\* C18 (as claimed): every loader, given lines each of which is a well-formed
\* record, blank, or not parsable as a record, completes without aborting and
\* returns exactly the well-formed records in their order, none duplicated and
\* none dropped.
C18_LoadsExactlyTheRecords ==
    pc \in {"loaded", "raised"} =>
      /\ raised = "none"
      /\ Len(events) = Len(RecordsOf(file))
      /\ \A k \in 1..Len(events) :
           events[k].kind = "record" /\ events[k].id = RecordsOf(file)[k]

\* C19 (as claimed): with a writer appending records while the file is loaded,
\* wherever the reads fall (the middle of a line included), the load raises no
\* error and returns a prefix of the records the writer has appended: a partly
\* written last line gives no event and no earlier whole record is lost.
C19_LoadsAPrefix ==
    pc \in {"loaded", "raised"} =>
      /\ raised = "none"
      /\ Len(events) <= Written
      /\ \A k \in 1..Len(events) :
           events[k].kind = "record" /\ events[k].id = k


-----------------------------------------------------------------------------
(* Claims about the session index (SpecIndex). *)

\* the entry of the index with the greatest started_at, when the index is an
\* object whose "sessions" is a list of objects with started_at of one type
WellShaped(f) ==
    /\ f.kind = "dict" /\ f.sessions.kind = "list"
    /\ \A k \in 1..Len(f.sessions.items) :
         /\ f.sessions.items[k].kind = "dict"
         /\ f.sessions.items[k].started_at.type =
              f.sessions.items[1].started_at.type

NamedSessions(f) ==
    {f.sessions.items[k].session_id : k \in
       {j \in 1..Len(f.sessions.items) :
          \A o \in 1..Len(f.sessions.items) :
            f.sessions.items[o].started_at.v <= f.sessions.items[j].started_at.v}}

\* the index is absent, empty, no JSON, JSON of another shape, or names a
\* session with no trace file
IndexUnusable(f) ==
    \/ f.kind \in {"absent", "empty", "invalid"}
    \/ ~WellShaped(f)
    \/ /\ f.sessions.items # <<>>
       /\ \A s \in NamedSessions(f) : s = 0 \/ trace_files[s] = 0

\* C20 (as claimed): when the index is unusable and a trace file exists,
\* _load_events raises nothing and loads the events of a most recently
\* modified trace file
C20_FallsBackToMostRecent ==
    (pc \in {"loaded", "raised"}
       /\ IndexUnusable(sessions_file)
       /\ \E s \in TraceSessions : trace_files[s] > 0) =>
      /\ raised = "none"
      /\ trace_file # 0
      /\ \A o \in TraceSessions : trace_files[o] <= trace_files[trace_file]
      /\ events = <<[kind |-> "record", id |-> trace_file]>>

-----------------------------------------------------------------------------
(* Claims about the turns of the pairing sweep (SpecSweep). *)

\* the event the last turn took
Taken == sweeping[turn]

\* a PostToolUse has just been taken
PostTaken ==
    pc = "sweeping" /\ turn >= 1 /\ Taken.event_type = "PostToolUse"

\* a sequence without its j-th element
Without(s, j) == SubSeq(s, 1, j - 1) \o SubSeq(s, j + 1, Len(s))

\* the pending entries of the tool before the turn
PendingOfTool == {i \in 1..Len(pending_was) : pending_was[i].key[1] = Taken.tool_name}

\* the pending entries with the key of the event taken
PendingOfKey ==
    {i \in 1..Len(pending_was) :
       pending_was[i].key = <<Taken.tool_name, Taken.timestamp[1]>>}

\* C24: a PostToolUse of tool X whose (tool_name, second) key is pending
\* removes exactly that entry, whatever else of X is pending; with no such
\* key it removes one and only one pending entry of X; with nothing of X
\* pending the mapping stays as it was
C24_ExactKeyFirstThenOneOfTool ==
    PostTaken =>
      IF PendingOfKey # {}
      THEN \A i \in PendingOfKey : pending_pre = Without(pending_was, i)
      ELSE IF PendingOfTool # {}
           THEN \E i \in PendingOfTool : pending_pre = Without(pending_was, i)
           ELSE pending_pre = pending_was

\* C24 witness: the PostToolUse found its key among two pending entries of its
\* tool, and the other one, pending before it, is still pending
C24_Witness ==
    /\ PostTaken
    /\ PendingOfKey # {}
    /\ Cardinality(PendingOfTool) = 2
    /\ \E i \in PendingOfTool \ PendingOfKey :
         i < CHOOSE j \in PendingOfKey : TRUE
    /\ Len(pending_pre) = Len(pending_was) - 1

\* the entries the last turn cleared
Cleared ==
    {i \in 1..Len(pending_was) :
       \A j \in 1..Len(pending_pre) : pending_pre[j] # pending_was[i]}

\* C28: a PostToolUse clears at most one pending PreToolUse, and only one of
\* its own session and tool that sorts before it, not after it in time;
\* every other pending entry stays
C28_ClearsOnlyItsOwnEarlierPre ==
    PostTaken =>
      /\ Cardinality(Cleared) <= 1
      /\ \A i \in Cleared :
           /\ pending_was[i].event.event_type = "PreToolUse"
           /\ pending_was[i].event.session_id = Taken.session_id
           /\ pending_was[i].event.tool_name = Taken.tool_name
           /\ pending_was[i].event.at < Taken.at
           /\ TsLeq(pending_was[i].event.timestamp, Taken.timestamp)
           /\ pending_pre = Without(pending_was, i)
      /\ Cleared = {} => pending_pre = pending_was

\* C28 witness: with no pending entry of its key, the PostToolUse cleared a
\* PreToolUse of its tool that was pending behind one of another tool
C28_Witness ==
    /\ PostTaken
    /\ PendingOfKey = {}
    /\ Cleared # {}
    /\ \E i \in 1..Len(pending_was) :
         /\ pending_was[i].key[1] # Taken.tool_name
         /\ \A c \in Cleared : i < c

-----------------------------------------------------------------------------
(* Claims about run_audit and its passes (SpecRerun, SpecOrder). *)

\* C22 (as claimed): every call of run_audit on one auditor over the same
\* traces returns the issue list and the summary counts of the first call
C22_EveryRunReturnsTheSame ==
    \A k \in 1..Len(results) :
      /\ results[k].issues = results[1].issues
      /\ results[k].status = results[1].status
      /\ results[k].status = "completed" => results[k].summary = results[1].summary

\* how often an issue is in a list
CountIn(found, issue) == Cardinality({k \in 1..Len(found) : found[k] = issue})

RECURSIVE IssuesOfPasses(_)
IssuesOfPasses(run) ==
    IF run = <<>> THEN <<>>
    ELSE Pass(Head(run), events) \o IssuesOfPasses(Tail(run))

\* the passes that ran, in the order of run_audit
InRunAuditOrder == SelectSeq(Passes, LAMBDA p : \E k \in 1..Len(ran) : ran[k] = p)

SameIssues(a, b) ==
    /\ Len(a) = Len(b)
    /\ \A issue \in {a[k] : k \in 1..Len(a)} : CountIn(a, issue) = CountIn(b, issue)

SummaryOf(result, key) ==
    IF "summary" \in DOMAIN result THEN result.summary[key] ELSE 0

-----------------------------------------------------------------------------
(* Claims about events with absent and null fields (SpecOptional). *)

\* C21 (as claimed): whatever fields of the loaded events are absent or null
\* and whatever their types, the audit raises nothing and completes
C21_AuditCompletes ==
    (pc \in {"returned", "raised"} /\ events # <<>>) =>
      /\ raised = "none"
      /\ \A k \in 1..Len(results) : results[k].status = "completed"

-----------------------------------------------------------------------------
(* Claims about the configured thresholds (SpecConfigured). *)

\* the outcomes of the calls of the trace, all of one tool in one session
OutcomesOf(s) == [k \in 1..Len(s) |-> IF s[k].status = "error" THEN "error" ELSE "success"]

FlipsOf(s) == Cardinality({k \in 2..Len(s) : OutcomesOf(s)[k] # OutcomesOf(s)[k - 1]})

FailedOf(s) == Cardinality({k \in 1..Len(s) : s[k].status = "error"})

\* C23 (as claimed): the oscillation pass flags exactly the sequences with at
\* least 3 changes whose change rate is over the configured change-rate
\* threshold, and the intermittency pass flags by the configured error-rate
\* threshold
C23_BothThresholdsConfigured ==
    /\ pc = "oscillation" =>
         (issues # <<>> <=>
            /\ FlipsOf(events) >= 3
            /\ FlipsOf(events) * oscillation_threshold[2]
                 > oscillation_threshold[1] * (Len(events) - 1))
    /\ pc = "intermittency" =>
         (issues # <<>> <=>
            /\ Len(events) >= 2
            /\ FailedOf(events) * threshold[2] >= threshold[1] * Len(events)
            /\ FailedOf(events) < Len(events))

-----------------------------------------------------------------------------
(* Claims about the compliance audit (SpecCompliance). *)

\* the duplicate_event_id issues of the first result for an id
DuplicatesOf(event_id) ==
    SelectSeq(results[1].issues,
              LAMBDA i : i.type = "duplicate_event_id" /\ i.event_id = event_id)

OccurrencesOf(event_id) ==
    Cardinality({k \in 1..Len(events) : events[k].event_id = event_id})

\* C26 (as claimed): an event_id that occurs k >= 1 times gets exactly k - 1
\* duplicate_event_id issues, all warning, and the result counts every event
C26_DuplicatesFlaggedNotDropped ==
    results # <<>> =>
      /\ results[1].total_events_analyzed = Len(events)
      /\ \A event_id \in {"a", "b", ""} :
           OccurrencesOf(event_id) >= 1 =>
             /\ Len(DuplicatesOf(event_id)) = OccurrencesOf(event_id) - 1
             /\ \A i \in 1..Len(DuplicatesOf(event_id)) :
                  DuplicatesOf(event_id)[i].severity = "warning"

\* C26 (amended): an event_id that is a text and not empty, occurring k >= 1
\* times, gets exactly k - 1 duplicate_event_id issues, all warning, and the
\* result counts every event
C26_NonEmptyDuplicatesFlagged ==
    results # <<>> =>
      /\ results[1].total_events_analyzed = Len(events)
      /\ \A event_id \in {"a", "b"} :
           OccurrencesOf(event_id) >= 1 =>
             /\ Len(DuplicatesOf(event_id)) = OccurrencesOf(event_id) - 1
             /\ \A i \in 1..Len(DuplicatesOf(event_id)) :
                  DuplicatesOf(event_id)[i].severity = "warning"

\* C26 witness: an id that occurs three times has two issues, beside an id
\* that occurs once and has none
C26_Witness ==
    /\ results # <<>>
    /\ OccurrencesOf("a") = 3 /\ Len(DuplicatesOf("a")) = 2
    /\ OccurrencesOf("b") = 1 /\ Len(DuplicatesOf("b")) = 0
    /\ results[1].total_events_analyzed = 4

-----------------------------------------------------------------------------
(* Claims about TraceWatcher (SpecWatcher). *)

\* how many times record id has been passed to the callback
DeliveriesOf(id) ==
    Cardinality({i \in 1..Len(delivered) : delivered[i].id = id})

\* the records whose whole line, newline included, lies in the first size
\* pieces of the file
WholeIn(size) ==
    {file[i].id : i \in {j \in 2..size : j < size /\ file[j].t = "tail"}}

\* C29: every record the session appended is passed to the callback exactly
\* once: no record is passed twice, and when a poll is over every record
\* whose line was whole in the file at the poll's stat has been passed
C29_EveryRecordExactlyOnce ==
    /\ \A id \in 1..MaxAppended : DeliveriesOf(id) <= 1
    /\ pc = "writing" => \A id \in WholeIn(last_sizes) : DeliveriesOf(id) = 1

-----------------------------------------------------------------------------
(* Claims about polling with get_events_since (SpecPolling). *)

\* C30: a client that passes the event_id of the last event it was given
\* loses and repeats nothing: what it has been given is always the beginning
\* of the trace, every event once and in file order, and when a call has
\* returned and nothing was appended since it is the whole trace; also when
\* event_ids occur twice in the trace and when the id the client begins with
\* is in no event of the trace
C30_PollingLosesAndRepeatsNothing ==
    /\ Len(received) <= Len(events)
    /\ \A i \in 1..Len(received) : i <= Len(events) => received[i] = events[i]
    /\ pc = "polled" => received = events

=========================================================================
